---- MODULE Spec2Model ----
(***************************************************************************)
(* The Intcode interpreter of src/src/intcode.rs (struct Program) as a     *)
(* state machine: memory, decoding, addressing, the execute0 loop and its  *)
(* two entry points execute / execute_until_next_output.                   *)
(***************************************************************************)
EXTENDS Integers, Sequences, FiniteSets, TLC

VARIABLES
    vm,     \* the Program instance (fields named as in the struct)
    call,   \* which entry point the caller is inside: "none", "execute", "until"
    ret,    \* what the most recent finished call gave back to its caller
    hist,   \* history of the calls made so far (observation only)
    ring    \* the feedback ring of day07: its threads, their instances and
            \* the channels between them (NoRing for a single caller)

vars == <<vm, call, ret, hist, ring>>

----------------------------------------------------------------------------
(* Bounds of the model *)

\* Width, in bits, of the machine word standing for the 64-bit usize / i64.
WordBits == 16
\* Number of run calls (execute / execute_until_next_output) a caller makes.
MaxCalls == 3
\* Number of forward() steps executed over the life of the instance.
MaxSteps == 12
\* Number of patch() calls a caller makes.
MaxPatches == 1
\* Highest address a caller patches or peeks.
MaxPatchAddr == 3
\* Number of characters of a program source given to parse().
MaxSourceLen == 5

UsizeRange == 2 ^ WordBits
IsizeMax == 2 ^ (WordBits - 1) - 1

\* A conversion to the unsigned word that stops at zero.
saturating_as_usize(x) == IF x < 0 THEN 0 ELSE x % UsizeRange

\* `x as usize` for a signed x: two's-complement reinterpretation.
AsUsize(x) == x % UsizeRange

\* `u as isize` for an unsigned u.
AsIsize(u) == IF u > IsizeMax THEN u - UsizeRange ELSE u

\* A remainder that takes the sign of the divisor (floored division).
floored_rem(a, b) == a % b

\* Rust's `%` on i64: the remainder takes the sign of the dividend.
RustRem(a, b) == IF a >= 0 THEN a % b ELSE -((-a) % b)

----------------------------------------------------------------------------
(* Memory: Vec<i64>, addresses from 0 (sequence index = address + 1) *)

\* Vec<i64> cannot hold more than isize::MAX bytes: reserve / push beyond
\* that panic with "capacity overflow".
MaxVecLen == IsizeMax \div 8

get(memory, address) ==
    IF address < Len(memory) THEN memory[address + 1] ELSE 0

\* TRUE when set() panics instead of storing.
set_panics(memory, address) ==
    Len(memory) <= address /\ address + 1 > MaxVecLen

\* set() that grows the memory by pushing the value only, without the
\* zeros for the cells skipped.
set_without_fill(memory, address, value) ==
    IF Len(memory) <= address
    THEN Append(memory, value)
    ELSE [memory EXCEPT ![address + 1] = value]

set(memory, address, value) ==
    IF Len(memory) <= address
    THEN memory \o [i \in 1..(address - Len(memory)) |-> 0] \o <<value>>
    ELSE [memory EXCEPT ![address + 1] = value]

----------------------------------------------------------------------------
(* Values of Rust's Option and Result types *)

None == [some |-> FALSE, value |-> 0]
Some(v) == [some |-> TRUE, value |-> v]

----------------------------------------------------------------------------
(* Instruction decoder *)

Digits == <<"0", "1", "2", "3", "4", "5", "6", "7", "8", "9">>

\* The characters of n.to_string(), last character first (n >= 0).
RECURSIVE rev_digits(_)
rev_digits(n) ==
    IF n < 10 THEN <<Digits[n + 1]>>
    ELSE <<Digits[(n % 10) + 1]>> \o rev_digits(n \div 10)

\* opcode_code.to_string().chars().rev(); a negative number ends with '-'.
to_string_rev(n) ==
    IF n >= 0 THEN rev_digits(n) ELSE rev_digits(-n) \o <<"-">>

\* Iterator::skip
skip(s, n) == IF Len(s) <= n THEN <<>> ELSE SubSeq(s, n + 1, Len(s))

\* Itertools::pad_using: pads up to a minimal length, never truncates.
pad_using(s, min, c) ==
    IF Len(s) >= min THEN s ELSE s \o [i \in 1..(min - Len(s)) |-> c]

\* The match on the mode character in parse_instruction.
parameter_mode(c) ==
    CASE c = "0" -> "Position"
      [] c = "1" -> "Immediate"
      [] c = "2" -> "Relative"
      [] OTHER -> "Position"

\* (OpCode, number of parameters), or Err("Unexpected opcode").
parse_opcode(opcode_code) ==
    LET code == RustRem(opcode_code, 100) IN
    CASE code = 1 -> [ok |-> TRUE, opcode |-> [tag |-> "Arithmetic", f |-> "Add"], count |-> 3]
      [] code = 2 -> [ok |-> TRUE, opcode |-> [tag |-> "Arithmetic", f |-> "Multiply"], count |-> 3]
      [] code = 3 -> [ok |-> TRUE, opcode |-> [tag |-> "Input", f |-> ""], count |-> 1]
      [] code = 4 -> [ok |-> TRUE, opcode |-> [tag |-> "Output", f |-> ""], count |-> 1]
      [] code = 5 -> [ok |-> TRUE, opcode |-> [tag |-> "Jump", f |-> "NotZero"], count |-> 2]
      [] code = 6 -> [ok |-> TRUE, opcode |-> [tag |-> "Jump", f |-> "Zero"], count |-> 2]
      [] code = 7 -> [ok |-> TRUE, opcode |-> [tag |-> "Test", f |-> "LessThan"], count |-> 3]
      [] code = 8 -> [ok |-> TRUE, opcode |-> [tag |-> "Test", f |-> "Equal"], count |-> 3]
      [] code = 9 -> [ok |-> TRUE, opcode |-> [tag |-> "AdjustRelativeBase", f |-> ""], count |-> 1]
      [] code = 99 -> [ok |-> TRUE, opcode |-> [tag |-> "Halt", f |-> ""], count |-> 0]
      [] OTHER -> [ok |-> FALSE, opcode |-> [tag |-> "", f |-> ""], count |-> 0]

\* self.memory.get(self.pointer).cloned()
current(p) ==
    IF p.pointer < Len(p.memory) THEN Some(p.memory[p.pointer + 1]) ELSE None

\* self.memory.get(self.pointer + add).cloned()
offset(p, add) ==
    IF p.pointer + add < Len(p.memory)
    THEN Some(p.memory[p.pointer + add + 1]) ELSE None

NoInstruction == [opcode |-> [tag |-> "", f |-> ""], parameters |-> <<>>]

Undecoded(p, kind, message) ==
    [kind |-> kind, message |-> message,
     instruction |-> NoInstruction, pointer |-> p.pointer]

\* The closure of the map in parse_instruction, collected: one Parameter
\* per mode character, its data read by self.offset(i + 1).unwrap(); then
\* `self.pointer += parameters_count + 1`.
\* "Panic": the unwrap met None (a parameter word lies beyond the end of
\* memory) and the thread unwinds.
collect_parameters(p, opcode, parameters_count, modes) ==
    IF \E i \in 1..Len(modes) : ~offset(p, i).some
    THEN Undecoded(p, "Panic", "unwrap on None")
    ELSE [kind |-> "Ok", message |-> "",
          instruction |->
              [opcode |-> opcode,
               parameters |-> [i \in 1..Len(modes) |->
                   [data |-> offset(p, i).value, mode |-> parameter_mode(modes[i])]]],
          pointer |-> p.pointer + parameters_count + 1]

\* The arm of parse_instruction for the result of parse_opcode.
parse_modes(p, opcode_code, parsed) ==
    IF ~parsed.ok
    THEN Undecoded(p, "Err", "Unexpected opcode")
    ELSE collect_parameters(p, parsed.opcode, parsed.count,
             pad_using(skip(to_string_rev(opcode_code), 2), parsed.count, "0"))

\* The arm of parse_instruction for the result of self.current().
parse_current(p, cur) ==
    IF ~cur.some
    THEN Undecoded(p, "Err", "Dangling internal pointer")
    ELSE parse_modes(p, cur.value, parse_opcode(cur.value))

\* Decodes the instruction at the pointer and advances the pointer past it.
\* kind "Ok": the instruction and the advanced pointer; "Err": message;
\* "Panic": see collect_parameters.
parse_instruction(p) == parse_current(p, current(p))

----------------------------------------------------------------------------
(* Addressing *)

\* get_parameter reading every parameter, immediate ones too, through its
\* data as an address.
get_parameter_all_position(p, instruction, parameter) ==
    IF parameter >= Len(instruction.parameters) THEN None
    ELSE Some(get(p.memory, AsUsize(instruction.parameters[parameter + 1].data)))

\* Value of parameter number `parameter` (from 0) according to its mode.
get_parameter(p, instruction, parameter) ==
    IF parameter >= Len(instruction.parameters) THEN None
    ELSE
    LET prm == instruction.parameters[parameter + 1] IN
    CASE prm.mode = "Position" -> Some(get(p.memory, AsUsize(prm.data)))
      [] prm.mode = "Relative" ->
            Some(get(p.memory, AsUsize(AsIsize(p.relative_base) + prm.data)))
      [] prm.mode = "Immediate" -> Some(prm.data)

\* The parameter as an address without the relative base.
get_address_position(p, prm) == AsUsize(prm.data)

\* The parameter as an address; immediate mode is treated as position mode.
get_address(p, prm) ==
    IF prm.mode = "Relative"
    THEN AsUsize(AsIsize(p.relative_base) + prm.data)
    ELSE AsUsize(prm.data)

\* An input source that starts again with its first value when it has
\* given them all.
input_source_repeating(src, n) ==
    IF src = <<>> THEN [ok |-> FALSE, value |-> 0]
    ELSE [ok |-> TRUE, value |-> src[(n % Len(src)) + 1]]

\* The input source set by set_input: the values it has for ordinals
\* 0 .. Len - 1, and an error for every later ordinal.
input_source(src, n) ==
    IF n < Len(src) THEN [ok |-> TRUE, value |-> src[n + 1]]
    ELSE [ok |-> FALSE, value |-> 0]

\* An operation that adds whatever the opcode.
compute_operation_add(operation, a, b) == a + b

\* a + b, a * b on i64. The programs of the model keep every value inside
\* the word, so the overflow of these operators is not reached.
compute_operation(operation, a, b) ==
    IF operation = "Add" THEN a + b ELSE a * b

\* A jump condition that always holds.
jump_condition_always(f, v) == TRUE

\* The closures boxed in OpCode::Jump and OpCode::Test.
jump_condition(f, v) == IF f = "NotZero" THEN v /= 0 ELSE v = 0
test_condition(f, a, b) == IF f = "LessThan" THEN a < b ELSE a = b

----------------------------------------------------------------------------
(* Execution engine *)

\* Outcome of one forward(): the instance afterwards and Ok(true), Ok(false),
\* Err(message) or a panic.
Outcome(p, result, message) == [vm |-> p, result |-> result, message |-> message]

\* A store that also overwrites the cell that follows the target.
store_two_cells(p, target, value) ==
    LET address == get_address(p, target) IN
    IF set_panics(p.memory, address + 1)
    THEN Outcome(p, "Panic", "capacity overflow")
    ELSE Outcome([p EXCEPT !.memory =
                     set(set(p.memory, address, value), address + 1, value)],
                 "Ok(true)", "")

\* self.set(self.get_address(target), value) inside forward, then Ok(true).
store(p, target, value) ==
    LET address == get_address(p, target) IN
    IF set_panics(p.memory, address)
    THEN Outcome(p, "Panic", "capacity overflow")
    ELSE Outcome([p EXCEPT !.memory = set(p.memory, address, value)], "Ok(true)", "")

\* request_input without `self.input_count += 1`.
request_input_keeps_count(p) ==
    [vm |-> p, input |-> input_source(p.input_source, p.input_count)]

\* (self.input_source)(self.input_count), then self.input_count += 1.
request_input(p) ==
    [vm |-> [p EXCEPT !.input_count = p.input_count + 1],
     input |-> input_source(p.input_source, p.input_count)]

\* The arm OpCode::Input storing what the request gave even when it failed.
input_stores_on_failure(req, target) == store(req.vm, target, req.input.value)

\* The arm OpCode::Input of forward, after request_input.
input(req, target) ==
    IF req.input.ok
    THEN store(req.vm, target, req.input.value)
    ELSE Outcome(req.vm, "Err", "Too many inputs")

\* The effect of a decoded instruction; q is the instance with the pointer
\* already moved past the instruction, p0 and p1 the values of its first
\* two parameters.
effect(q, instruction, opcode, p0, p1) ==
    CASE opcode.tag = "Arithmetic" ->
            store(q, instruction.parameters[3],
                  compute_operation(opcode.f, p0.value, p1.value))
      [] opcode.tag = "Input" -> input(request_input(q), instruction.parameters[1])
      [] opcode.tag = "Output" ->
            Outcome([q EXCEPT !.output = Append(q.output, p0.value)], "Ok(true)", "")
      [] opcode.tag = "Jump" ->
            IF jump_condition(opcode.f, p0.value)
            THEN Outcome([q EXCEPT !.pointer = AsUsize(p1.value)], "Ok(true)", "")
            ELSE Outcome(q, "Ok(true)", "")
      [] opcode.tag = "Test" ->
            store(q, instruction.parameters[3],
                  IF test_condition(opcode.f, p0.value, p1.value) THEN 1 ELSE 0)
      [] opcode.tag = "AdjustRelativeBase" ->
            Outcome([q EXCEPT !.relative_base =
                         AsUsize(AsIsize(q.relative_base) + p0.value)], "Ok(true)", "")
      [] opcode.tag = "Halt" -> Outcome(q, "Ok(false)", "")

\* The match of forward on the result of parse_instruction.
execute_instruction(p, q, parsed) ==
    IF parsed.kind /= "Ok" THEN Outcome(p, parsed.kind, parsed.message)
    ELSE effect(q, parsed.instruction, parsed.instruction.opcode,
                get_parameter(q, parsed.instruction, 0),
                get_parameter(q, parsed.instruction, 1))

\* parse_instruction's `self.pointer += parameters_count + 1`.
advance(p, parsed) == [p EXCEPT !.pointer = parsed.pointer]

decoded(p, parsed) == execute_instruction(p, advance(p, parsed), parsed)

\* Processes one instruction: decodes it, moves the pointer past it and
\* applies its effect.
forward(p) == decoded(p, parse_instruction(p))

----------------------------------------------------------------------------
(* Suspend / resume: execute0 and its two entry points *)

\* reset() that also takes the relative base and the input cursor back to
\* zero.
reset_all(p) == [p EXCEPT !.pointer = 0, !.relative_base = 0, !.input_count = 0]

\* reset() that also empties the outputs.
reset_clears_output(p) == [p EXCEPT !.pointer = 0, !.output = <<>>]

reset(p) == [p EXCEPT !.pointer = 0]

\* The head of execute0 resetting the pointer on every call.
execute0_enter_always_reset(p) == [reset(p) EXCEPT !.running = TRUE]

\* The head of execute0 without `self.running = true`.
execute0_enter_not_running(p) == IF ~p.running THEN reset(p) ELSE p

\* The head of execute0 starting the inputs again at ordinal 0.
execute0_enter_rewinding(p) ==
    [(IF ~p.running THEN reset(p) ELSE p) EXCEPT !.running = TRUE,
                                                 !.input_count = 0]

\* The head of execute0: `if !self.running { self.reset(); } self.running = true;`
execute0_enter(p) ==
    [(IF ~p.running THEN reset(p) ELSE p) EXCEPT !.running = TRUE]

\* The loop of execute0 breaking only after a second output.
pauses_after_two(output_len, p, until_next_output) ==
    Len(p.output) > output_len + 1 /\ until_next_output

\* The loop of execute0 never breaking at an output.
pauses_never(output_len, p, until_next_output) == FALSE

\* TRUE when the loop of execute0 breaks after a forward() that returned
\* Ok(true): the output grew during this iteration and the caller asked to
\* stop at the next output.
pauses(output_len, p, until_next_output) ==
    Len(p.output) > output_len /\ until_next_output

\* The rest of an iteration of the loop of execute0 after forward() gave
\* fwd. done = FALSE: the loop goes on. done = TRUE: execute0 returns
\* result (Ok with self.output(), Err with a message) or unwinds (Panic).
after_forward(output_len, fwd, until_next_output) ==
    CASE fwd.result = "Panic" ->
            [vm |-> fwd.vm, done |-> TRUE, result |-> "Panic",
             outputs |-> <<>>, message |-> fwd.message, forward |-> fwd.result]
      [] fwd.result = "Err" ->
            [vm |-> fwd.vm, done |-> TRUE, result |-> "Err",
             outputs |-> <<>>, message |-> fwd.message, forward |-> fwd.result]
      [] fwd.result = "Ok(false)" ->
            [vm |-> [fwd.vm EXCEPT !.running = FALSE], done |-> TRUE, result |-> "Ok",
             outputs |-> fwd.vm.output, message |-> "", forward |-> fwd.result]
      [] fwd.result = "Ok(true)" ->
            IF pauses(output_len, fwd.vm, until_next_output)
            THEN [vm |-> fwd.vm, done |-> TRUE, result |-> "Ok",
                  outputs |-> fwd.vm.output, message |-> "", forward |-> fwd.result]
            ELSE [vm |-> fwd.vm, done |-> FALSE, result |-> "",
                  outputs |-> <<>>, message |-> "", forward |-> fwd.result]

\* One iteration of the loop of execute0.
execute0_iteration(p, until_next_output) ==
    after_forward(Len(p.output), forward(p), until_next_output)

\* What execute() hands to its caller from the result of execute0(false).
execute_result(it) ==
    [kind |-> it.result, outputs |-> it.outputs, value |-> 0, message |-> it.message]

\* execute_until_next_output() taking outputs.first() instead of the last.
execute_until_next_output_first(it) ==
    IF it.result = "Ok"
    THEN IF Len(it.outputs) > 0
         THEN [kind |-> "Ok", outputs |-> <<>>,
               value |-> it.outputs[1], message |-> ""]
         ELSE [kind |-> "Err", outputs |-> <<>>, value |-> 0, message |-> "No output"]
    ELSE [kind |-> it.result, outputs |-> <<>>, value |-> 0, message |-> it.message]

\* What execute_until_next_output() hands to its caller from the result of
\* execute0(true): outputs.last(), or Err("No output") when there is none.
execute_until_next_output_result(it) ==
    IF it.result = "Ok"
    THEN IF Len(it.outputs) > 0
         THEN [kind |-> "Ok", outputs |-> <<>>,
               value |-> it.outputs[Len(it.outputs)], message |-> ""]
         ELSE [kind |-> "Err", outputs |-> <<>>, value |-> 0, message |-> "No output"]
    ELSE [kind |-> it.result, outputs |-> <<>>, value |-> 0, message |-> it.message]

\* FromStr for Program, on a source whose tokens parse to `memory`.
from_str(memory, src) ==
    [memory |-> memory, pointer |-> 0, relative_base |-> 0,
     input_source |-> src, input_count |-> 0, output |-> <<>>, running |-> FALSE]

patch(p, address, value) == [p EXCEPT !.memory = set(p.memory, address, value)]

----------------------------------------------------------------------------
(* Loading: FromStr on the characters of the source *)

\* str::split(','): the pieces between the commas, empty ones included.
RECURSIVE split(_, _)
split(chars, piece) ==
    IF chars = <<>> THEN <<piece>>
    ELSE IF Head(chars) = "," THEN <<piece>> \o split(Tail(chars), <<>>)
    ELSE split(Tail(chars), Append(piece, Head(chars)))

\* Iterator::filter(|number_str| !number_str.is_empty())
RECURSIVE filter_non_empty(_)
filter_non_empty(pieces) ==
    IF pieces = <<>> THEN <<>>
    ELSE IF Head(pieces) = <<>> THEN filter_non_empty(Tail(pieces))
    ELSE <<Head(pieces)>> \o filter_non_empty(Tail(pieces))

IsDigit(c) == \E d \in 1..10 : Digits[d] = c
digit_value(c) == (CHOOSE d \in 1..10 : Digits[d] = c) - 1

\* The digits of an i64 literal accumulated from the left; -1 as soon as a
\* character is not a digit or the value leaves the range of the word
\* (negative literals reach one more value than positive ones).
RECURSIVE accumulate(_, _, _)
accumulate(chars, acc, limit) ==
    IF chars = <<>> THEN acc
    ELSE IF ~IsDigit(Head(chars)) THEN -1
    ELSE IF acc * 10 + digit_value(Head(chars)) > limit THEN -1
    ELSE accumulate(Tail(chars), acc * 10 + digit_value(Head(chars)), limit)

\* str::parse::<i64>: an optional sign, then one digit or more.
parse_i64(token) ==
    CASE token = <<>> -> None
      [] Head(token) = "-" ->
            IF Tail(token) = <<>> \/ accumulate(Tail(token), 0, IsizeMax + 1) < 0
            THEN None ELSE Some(-accumulate(Tail(token), 0, IsizeMax + 1))
      [] Head(token) = "+" ->
            IF Tail(token) = <<>> \/ accumulate(Tail(token), 0, IsizeMax) < 0
            THEN None ELSE Some(accumulate(Tail(token), 0, IsizeMax))
      [] OTHER ->
            IF accumulate(token, 0, IsizeMax) < 0
            THEN None ELSE Some(accumulate(token, 0, IsizeMax))

\* collect::<Result<Vec<i64>, _>>(): the values, or the first error.
collect(tokens) ==
    IF \E i \in 1..Len(tokens) : ~parse_i64(tokens[i]).some
    THEN [ok |-> FALSE, memory |-> <<>>]
    ELSE [ok |-> TRUE, memory |-> [i \in 1..Len(tokens) |-> parse_i64(tokens[i]).value]]

\* No instance: what the caller holds before parse() and after it failed
\* (-1 is no value of the pointer of an instance).
NoProgram ==
    [memory |-> <<>>, pointer |-> -1, relative_base |-> 0, input_source |-> <<>>,
     input_count |-> 0, output |-> <<>>, running |-> FALSE]

\* The match of from_str on what collect gave.
from_collected(collected, src) ==
    IF collected.ok
    THEN [kind |-> "Ok", vm |-> from_str(collected.memory, src), message |-> ""]
    ELSE [kind |-> "Err", vm |-> NoProgram,
          message |-> "Invalid source code: invalid numbers."]

\* source_code.parse::<Program>()
parse(source_code, src) ==
    from_collected(collect(filter_non_empty(split(source_code, <<>>))), src)

----------------------------------------------------------------------------
(* The instance and its callers *)

\* Programs loaded by the callers of the model.
Halting == <<99>>
EchoCell == <<4, 0, 99>>
TwoOutputs == <<104, 7, 104, 8, 99>>
ReadWrite == <<3, 0, 4, 0, 99>>
SelfAdd == <<1, 0, 0, 0, 99>>
GrowAdd == <<1101, 1, 2, 9, 4, 9, 99>>
BadOpcode == <<104, 5, 13>>
Truncated == <<104, 5, 4>>
Countdown == <<1001, 11, -1, 11, 4, 11, 1005, 11, 0, 99, 0, 2>>
Relative == <<109, 3, 204, -3, 99>>

Programs ==
    {Halting, EchoCell, TwoOutputs, ReadWrite, SelfAdd, GrowAdd, BadOpcode,
     Truncated, Countdown, Relative}

\* Input sources given to set_input.
InputSources == {<<>>, <<42>>}

PatchAddrs == 0..MaxPatchAddr
PatchValues == {4, 99}

NoRet == [kind |-> "None", outputs |-> <<>>, value |-> 0, message |-> ""]

\* The caller has spawned no thread and made no channel.
NoRing == [source |-> <<>>]
Unit == [kind |-> "Unit", outputs |-> <<>>, value |-> 0, message |-> ""]

\* The history of an instance just built by from_str.
NoHistory(p) ==
    [op |-> "from_str",     \* the last operation started
     pre |-> p,             \* the instance when that operation started
     address |-> 0,         \* its address argument (patch, get)
     value |-> 0,           \* its value argument (patch)
     calls |-> 0,           \* run calls started
     steps |-> 0,           \* forward() calls made
     patches |-> 0,         \* patch() calls made
     call_steps |-> 0,      \* forward() calls made by the last run call
     first_pointer |-> -1,  \* pointer at the first forward() of that call
     last_forward |-> "",   \* what the last forward() of that call returned
     fwd_pre |-> p,         \* the instance when that forward() started
     halted |-> FALSE,      \* some forward() has returned Ok(false)
     halted_before |-> FALSE,   \* ... before the last run call started
     errored |-> FALSE,     \* some forward() has returned an Err
     errored_before |-> FALSE,  \* ... before the last run call started
     requested |-> <<>>,    \* the ordinals the input source has been called with
     adjusted |-> <<>>,     \* the values opcode 9 has added to the relative base
     returned |-> <<>>,     \* what execute_until_next_output has returned
                            \* as Ok: the value, and is_running() then
     execute_ret |-> NoRet, \* what execute() returned on the twin instance
                            \* (PumpSpec)
     execute_vm |-> p]      \* ... and the twin instance as execute() left it

\* The caller has built the instance from `memory` and given it `src`.
Loaded(memory, src) ==
    /\ vm = from_str(memory, src)
    /\ call = "none"
    /\ ret = NoRet
    /\ hist = NoHistory(vm)
    /\ ring = NoRing

\* The programs without an Input instruction never call their input
\* source: they are loaded with the empty one; ReadWrite with each source.
Init ==
    \/ \E memory \in Programs : Loaded(memory, <<>>)
    \/ \E src \in InputSources : Loaded(ReadWrite, src)

\* The caller can use the instance: no call is in progress and no panic has
\* unwound the thread that owns it.
Usable == call = "none" /\ ret.kind /= "Panic"

\* program.patch(address, value)
Patch(address, value) ==
    /\ Usable
    /\ hist.patches < MaxPatches
    /\ ~set_panics(vm.memory, address)
    /\ vm' = patch(vm, address, value)
    /\ ret' = Unit
    /\ hist' = [hist EXCEPT !.op = "patch", !.pre = vm, !.address = address,
                            !.value = value, !.patches = @ + 1]
    /\ UNCHANGED <<call, ring>>

\* program.get(address)
Peek(address) ==
    /\ Usable
    /\ hist.op /= "get"
    /\ ret' = [kind |-> "Some", outputs |-> <<>>,
               value |-> get(vm.memory, address), message |-> ""]
    /\ hist' = [hist EXCEPT !.op = "get", !.pre = vm, !.address = address]
    /\ UNCHANGED <<vm, call, ring>>

\* A run call starts: the head of execute0.
Enter(entry) ==
    /\ Usable
    /\ hist.calls < MaxCalls
    /\ vm' = execute0_enter(vm)
    /\ call' = entry
    /\ ret' = NoRet
    /\ hist' = [hist EXCEPT !.op = entry, !.pre = vm, !.calls = @ + 1,
                            !.address = 0, !.value = 0,
                            !.call_steps = 0, !.first_pointer = -1,
                            !.last_forward = "", !.fwd_pre = execute0_enter(vm),
                            !.halted_before = hist.halted,
                            !.errored_before = hist.errored]
    /\ UNCHANGED ring

\* program.execute()
Execute == Enter("execute")

\* program.execute_until_next_output()
ExecuteUntilNextOutput == Enter("until")

\* What the entry point `entry` hands to its caller when execute0 returns.
caller_result(entry, it) ==
    IF entry = "until" THEN execute_until_next_output_result(it)
    ELSE execute_result(it)

\* forward(), having decoded `parsed`, reaches the arm OpCode::Input, which
\* calls the input source.
requests_input(parsed) ==
    parsed.kind = "Ok" /\ parsed.instruction.opcode.tag = "Input"

\* forward() on p has returned `result` from the arm
\* OpCode::AdjustRelativeBase.
adjusts(parsed, result) ==
    /\ parsed.kind = "Ok"
    /\ parsed.instruction.opcode.tag = "AdjustRelativeBase"
    /\ result = "Ok(true)"

\* The run call in progress has made one more iteration of its loop.
Iterated(it, res) ==
    /\ vm' = it.vm
    /\ call' = IF it.done THEN "none" ELSE call
    /\ ret' = IF it.done THEN res ELSE ret
    /\ hist' = [hist EXCEPT !.steps = @ + 1, !.call_steps = @ + 1,
                            !.first_pointer = IF hist.call_steps = 0
                                              THEN vm.pointer ELSE @,
                            !.last_forward = it.forward,
                            !.fwd_pre = vm,
                            !.requested =
                                IF requests_input(parse_instruction(vm))
                                THEN Append(@, vm.input_count) ELSE @,
                            !.adjusted =
                                IF adjusts(parse_instruction(vm), it.forward)
                                THEN Append(@, get_parameter(vm,
                                         parse_instruction(vm).instruction, 0).value)
                                ELSE @,
                            !.halted = @ \/ it.forward = "Ok(false)",
                            !.errored = @ \/ it.forward = "Err",
                            !.returned =
                                IF it.done /\ call = "until" /\ res.kind = "Ok"
                                THEN Append(@, [value |-> res.value,
                                                running |-> it.vm.running])
                                ELSE @]
    /\ UNCHANGED ring

Returned(it) == Iterated(it, caller_result(call, it))

\* One iteration of the loop of execute0 inside the run call in progress;
\* when the loop ends, the call returns to its caller.
Execute0Loop ==
    /\ call /= "none"
    /\ hist.steps < MaxSteps
    /\ Returned(execute0_iteration(vm, call = "until"))

Next ==
    \/ \E address \in PatchAddrs, value \in PatchValues : Patch(address, value)
    \/ \E address \in PatchAddrs : Peek(address)
    \/ Execute
    \/ ExecuteUntilNextOutput
    \/ Execute0Loop

Spec == Init /\ [][Next]_vars

----------------------------------------------------------------------------
(* A caller that runs a program twice: once with execute(), then, on a
   second instance built from the same program and input source, with
   execute_until_next_output() called again until is_running() is false. *)

\* The first instance is still being set up or run.
First == hist.execute_ret.kind = "None"

\* patch() on the first instance before it runs.
FreshPatch(address, value) ==
    /\ First
    /\ hist.calls = 0
    /\ Patch(address, value)

\* execute() on the first instance.
FreshExecute ==
    /\ First
    /\ hist.calls = 0
    /\ Execute

\* execute() has returned the outputs: the caller keeps them and builds the
\* second instance, with the same memory (the patches included) and input
\* source the first one had when execute() was called.
Reload ==
    /\ First
    /\ call = "none"
    /\ hist.op = "execute"
    /\ ret.kind = "Ok"
    /\ vm' = from_str(hist.pre.memory, hist.pre.input_source)
    /\ call' = "none"
    /\ ret' = NoRet
    /\ hist' = [hist EXCEPT !.op = "from_str", !.pre = vm', !.calls = 0,
                            !.steps = 0, !.call_steps = 0, !.first_pointer = -1,
                            !.last_forward = "", !.halted = FALSE,
                            !.halted_before = FALSE, !.errored = FALSE,
                            !.errored_before = FALSE, !.returned = <<>>,
                            !.fwd_pre = vm', !.requested = <<>>,
                            !.adjusted = <<>>,
                            !.execute_ret = ret, !.execute_vm = vm]
    /\ UNCHANGED ring

\* `loop { program.execute_until_next_output(); if !program.is_running() { break } }`
\* on the second instance.
PumpCall ==
    /\ ~First
    /\ hist.op = "from_str" \/ (hist.op = "until" /\ vm.running)
    /\ ExecuteUntilNextOutput

PumpNext ==
    \/ \E address \in PatchAddrs, value \in PatchValues : FreshPatch(address, value)
    \/ FreshExecute
    \/ Reload
    \/ PumpCall
    \/ Execute0Loop

PumpSpec == Init /\ [][PumpNext]_vars

----------------------------------------------------------------------------
(* A caller that loads one instruction, framed by an adjustment of the
   relative base, or one of the example programs, and runs it. *)

\* Mode digits of the model's instruction words.
Modes == 0..2

\* Instruction words made of an opcode and one mode digit per parameter.
WordsOf(opcodes, m1, m2, m3) ==
    {op + 100 * a + 1000 * b + 10000 * c :
        op \in opcodes, a \in m1, b \in m2, c \in m3}

\* Every supported opcode under the combinations of its mode digits; words
\* with more digits than their opcode has parameters, and with a digit
\* above 2; words without a supported opcode, negative words among them.
StepWords ==
    WordsOf({1, 7}, Modes, Modes, Modes)
        \cup WordsOf({2, 8}, Modes, {1}, {0})
        \cup WordsOf({5, 6}, Modes, Modes, {0})
        \cup WordsOf({3, 4, 9}, Modes, {0}, {0})
        \cup {99, 10099, 1003, 1104, 10104, 1109, 11105, 304}
        \cup {0, 13, 100, 1198, -1, -99, -104}

\* Parameter words of the framed instruction.
StepData == {-1, 0, 5}

\* Adjustments of the relative base made before the framed instruction.
StepBases == {-1, 0, 2}

\* `109, base` (adjust the relative base), then the instruction word and
\* three parameter words.
Framed(base, w, a, b, c) == <<109, base, w, a, b, c>>

Day2Example == <<1, 9, 10, 3, 2, 3, 11, 0, 99, 30, 40, 50>>
ImmediateMultiply == <<1002, 4, 3, 4, 33>>
RelativeRoundTrip == <<109, 2000, 21101, 3, 4, 5, 204, 5, 99>>
RelativeInput == <<109, 2000, 203, 5, 204, 5, 99>>
ThreeInputs == <<3, 9, 4, 9, 3, 10, 3, 9, 99>>
MoreDigitsAtEnd == <<10104, 7, 99>>
ImmediateLiterals == <<1101, 3, 4, 9, 4, 9, 104, 5, 99, 0>>
CellLiterals == <<1, 10, 11, 9, 4, 9, 4, 12, 99, 0, 3, 4, 5>>
SignedBase ==
    <<109, -5, 109, 3, 204, 4, 21101, 3, 4, 17, 109, 4, 204, 13, 99>>

FramedPrograms ==
    {Framed(base, w, a, b, c) :
        base \in StepBases, w \in StepWords, a \in StepData, b \in StepData,
        c \in StepData}

ExamplePrograms ==
    {Day2Example, ImmediateMultiply, RelativeRoundTrip, RelativeInput,
     ThreeInputs, MoreDigitsAtEnd, ImmediateLiterals, CellLiterals, ReadWrite,
     Truncated, SignedBase}

\* Input sources given to set_input: no value, or two.
StepSources == {<<>>, <<42, 43>>}

StepInit ==
    \/ \E memory \in FramedPrograms : Loaded(memory, <<42, 43>>)
    \/ \E memory \in ExamplePrograms, src \in StepSources : Loaded(memory, src)

StepNext ==
    \/ Execute
    \/ ExecuteUntilNextOutput
    \/ Execute0Loop

StepSpec == StepInit /\ [][StepNext]_vars

----------------------------------------------------------------------------
(* A caller that parses a source: `source_code.parse::<Program>()` *)

\* Characters of the sources: two digits, the signs, the separator and a
\* character that is none of these.
SourceChars == {"1", "9", "-", "+", ",", "x"}

Sources == UNION {[1..n -> SourceChars] : n \in 0..MaxSourceLen}

LoadInit ==
    /\ \E source_code \in Sources :
           hist = [op |-> "source", source_code |-> source_code]
    /\ vm = NoProgram
    /\ call = "none"
    /\ ret = NoRet
    /\ ring = NoRing

\* parse() has returned `parsed`.
Parsed(parsed) ==
    /\ vm' = parsed.vm
    /\ ret' = [kind |-> parsed.kind, outputs |-> <<>>, value |-> 0,
               message |-> parsed.message]
    /\ hist' = [hist EXCEPT !.op = "parse"]
    /\ UNCHANGED <<call, ring>>

\* let program: Result<Program> = source_code.parse();
Load ==
    /\ hist.op = "source"
    /\ Parsed(parse(hist.source_code, <<>>))

LoadNext == Load

LoadSpec == LoadInit /\ [][LoadNext]_vars

----------------------------------------------------------------------------
(* The feedback ring of day07::run (second answer): the orchestrator, the
   threads running run_amplifier and the mpsc channels between them *)

\* The pairs (rx, tx) the orchestrator spawns a thread for.
NumAmplifiers == 5
Amplifiers == 1..NumAmplifiers

\* Highest number of rounds (one input read, one output) of an amplifier
\* program of the model.
MaxRounds == 2

\* Channel c carries the inputs of amplifier c + 1: channel 0 is
\* (tx_input, rx_a), channel 1 is (tx_a, rx_b), ..., the last one is
\* (tx_e, rx_output).
Channels == 0..NumAmplifiers
rx_of(a) == a - 1
tx_of(a) == a

\* channel(): nothing buffered, the Sender and the Receiver alive. `sent`
\* is the history of the values the channel has accepted.
channel == [buffer |-> <<>>, sender |-> TRUE, receiver |-> TRUE, sent |-> <<>>]

\* A channel that hands over the newest value first.
send_newest_first(ch, value) ==
    IF ch.receiver
    THEN [ch EXCEPT !.buffer = <<value>> \o @, !.sent = Append(@, value)]
    ELSE ch

\* Sender::send on an unbounded channel: the value is buffered behind the
\* earlier ones; when the Receiver has been dropped the send fails and the
\* value is lost.
send(ch, value) ==
    IF ch.receiver
    THEN [ch EXCEPT !.buffer = Append(@, value), !.sent = Append(@, value)]
    ELSE ch

send_fails(ch) == ~ch.receiver

\* A recv() that never returns a value.
recv_ready_never(ch) == FALSE

\* Receiver::recv: Ok with the oldest buffered value; Err when nothing is
\* buffered and the Sender has been dropped; otherwise the thread blocks.
recv_ready(ch) == ch.buffer /= <<>>

recv_disconnected(ch) == ch.buffer = <<>> /\ ~ch.sender
recv_blocks(ch) == ch.buffer = <<>> /\ ch.sender

received(ch) == [ch EXCEPT !.buffer = Tail(@)]

\* A drop of the Sender that loses what is buffered.
drop_sender_flushing(ch) == [ch EXCEPT !.sender = FALSE, !.buffer = <<>>]

\* Drop of a Sender, and of a Receiver with what it had buffered.
drop_sender(ch) == [ch EXCEPT !.sender = FALSE]
drop_receiver(ch) == [ch EXCEPT !.receiver = FALSE, !.buffer = <<>>]

\* Amplifier programs: read the phase setting; `k` times read a signal, add
\* the phase to it and output it; halt.
RECURSIVE rounds(_, _, _)
rounds(k, phase, signal) ==
    IF k = 0 THEN <<>>
    ELSE <<3, signal, 1, phase, signal, signal, 4, signal>>
             \o rounds(k - 1, phase, signal)

Amplifier(k) == <<3, 8 * k + 3>> \o rounds(k, 8 * k + 3, 8 * k + 4) \o <<99, 0, 0>>

\* Programs of another shape: ReadWrite outputs its phase setting and
\* halts; Silent reads two inputs and halts without an output; Greedy
\* reads three inputs before its only output.
Silent == <<3, 0, 3, 0, 99>>
Greedy == <<3, 0, 3, 0, 3, 0, 4, 0, 99>>

RingPrograms ==
    {Amplifier(k) : k \in 1..MaxRounds} \cup {ReadWrite, Silent, Greedy}

\* Two of the (5..10).permutations(5).
PhaseSettings == {<<5, 6, 7, 8, 9>>, <<9, 7, 8, 5, 6>>}

\* A thread that has parsed its program and set its input source; it is
\* at the head of the loop of run_amplifier.
\*   pc: "loop" at the call of execute_until_next_output; "recv" inside
\*       rx.recv(), called by the input source, called by forward(), called
\*       by execute0 for execute_until_next_output; "send" at tx.send;
\*       "exit" after the break; "panic" at panic!(e); "returned" and
\*       "panicked" when the thread is over.
spawned(p) ==
    [pc |-> "loop",
     fwd_pre |-> p,       \* the instance when the forward() in progress started
     output |-> 0,        \* the Ok(output) of the last call
     message |-> "",      \* the Err of the last call
     sends |-> <<>>]      \* the values given to tx.send, in order

\* The orchestrator after the spawn: the channels hold the phase settings.
\*   pc: "start" at tx_input.send(0); "recv" at rx_output.recv(); "send"
\*       at tx_input.send(amplifier_output); "join" in the join loop;
\*       "returned" with `output`; "panicked" by an expect.
Spawned(source, phase_setting_sequence) ==
    /\ ring = [source |-> source,
               phase_setting_sequence |-> phase_setting_sequence,
               program |-> [a \in Amplifiers |-> from_str(source, <<>>)],
               thread |-> [a \in Amplifiers |-> spawned(from_str(source, <<>>))],
               channel |-> [c \in Channels |->
                               IF c < NumAmplifiers
                               THEN send(channel, phase_setting_sequence[c + 1])
                               ELSE channel],
               main |-> [pc |-> "start", output |-> 0, amplifier_output |-> 0,
                         joined |-> 0, message |-> "",
                         received |-> <<>>,    \* what rx_output.recv() gave
                         forwarded |-> <<>>]]  \* what was given to tx_input.send
                                               \* in the loop
    /\ vm = NoProgram
    /\ call = "none"
    /\ ret = NoRet
    /\ hist = [op |-> "ring"]

\* The threads of ReadWrite exchange no value: one sequence of phase
\* settings is enough for it.
RingInit ==
    \/ \E source \in RingPrograms \ {ReadWrite},
          phase_setting_sequence \in PhaseSettings :
           Spawned(source, phase_setting_sequence)
    \/ Spawned(ReadWrite, <<5, 6, 7, 8, 9>>)

\* The ring becomes r; the single caller's variables are not in use.
Ring(r) ==
    /\ ring' = r
    /\ UNCHANGED <<vm, call, ret, hist>>

\* `if !program.is_running() { break; }`
breaks(p) == ~p.running

\* The closure's map_err.
cannot_receive(fwd) == [fwd EXCEPT !.message = "Cannot receive input"]

\* The input source of the thread after rx.recv() gave `value`: the closure
\* has answered one request more.
with_received(p, value) == [p EXCEPT !.input_source = Append(@, value)]

\* The match of run_amplifier sending again what the call before gave.
matched_stale(t, res) ==
    IF res.kind = "Ok" THEN [t EXCEPT !.pc = "send"]
    ELSE [t EXCEPT !.pc = "panic", !.message = res.message]

\* execute_until_next_output has returned `res` to the match of
\* run_amplifier.
matched(t, res) ==
    IF res.kind = "Ok" THEN [t EXCEPT !.pc = "send", !.output = res.value]
    ELSE [t EXCEPT !.pc = "panic", !.message = res.message]

\* The thread runs its instance, inside execute_until_next_output, up to
\* the next point another thread can observe or influence: the rx.recv()
\* of an Input instruction, or the return of the call.
\*   amplifier_runs: at the head of an iteration of the loop of execute0.
\*     At an Input instruction forward() has decoded it (parse_instruction
\*     has moved the pointer past it) and request_input calls the input
\*     source, which calls rx.recv().
\*   amplifier_continues: after the forward() of the iteration `it`.
RECURSIVE amplifier_runs(_, _), amplifier_continues(_, _)
amplifier_runs(t, p) ==
    IF requests_input(parse_instruction(p))
    THEN [thread |-> [t EXCEPT !.pc = "recv", !.fwd_pre = p],
          program |-> advance(p, parse_instruction(p))]
    ELSE amplifier_continues(t, execute0_iteration(p, TRUE))
amplifier_continues(t, it) ==
    IF ~it.done THEN CHOOSE ran \in {amplifier_runs(t, p) : p \in {it.vm}} : TRUE
    ELSE [thread |-> matched(t, execute_until_next_output_result(it)),
          program |-> it.vm]

AmpRan(a, ran, channels) ==
    Ring([ring EXCEPT !.program[a] = ran.program,
                      !.thread[a] = ran.thread,
                      !.channel = channels])

\* program.execute_until_next_output(), from the head of execute0 on.
AmpCall(a) ==
    /\ ring.thread[a].pc = "loop"
    /\ AmpRan(a, amplifier_runs(ring.thread[a], execute0_enter(ring.program[a])),
              ring.channel)

\* rx.recv() returns Ok(value): the rest of the forward(), and on.
AmpRecv(a) ==
    /\ ring.thread[a].pc = "recv"
    /\ recv_ready(ring.channel[rx_of(a)])
    /\ AmpRan(a,
           amplifier_continues(
               ring.thread[a],
               after_forward(Len(ring.thread[a].fwd_pre.output),
                             forward(with_received(ring.thread[a].fwd_pre,
                                                   Head(ring.channel[rx_of(a)].buffer))),
                             TRUE)),
           [ring.channel EXCEPT ![rx_of(a)] = received(@)])

\* rx.recv() returns Err: the closure gives Err("Cannot receive input").
AmpRecvFail(a) ==
    /\ ring.thread[a].pc = "recv"
    /\ recv_disconnected(ring.channel[rx_of(a)])
    /\ AmpRan(a,
           amplifier_continues(
               ring.thread[a],
               after_forward(Len(ring.thread[a].fwd_pre.output),
                             cannot_receive(forward(ring.thread[a].fwd_pre)),
                             TRUE)),
           ring.channel)

\* let _ = tx.send(output); if !program.is_running() { break; }
AmpSend(a) ==
    /\ ring.thread[a].pc = "send"
    /\ Ring([ring EXCEPT !.channel[tx_of(a)] = send(@, ring.thread[a].output),
                         !.thread[a] =
                             [@ EXCEPT !.sends = Append(@, ring.thread[a].output),
                                       !.pc = IF breaks(ring.program[a])
                                              THEN "exit" ELSE "loop"]])

\* run_amplifier returns or unwinds: program (with rx in its input source)
\* and tx are dropped.
AmpExit(a) ==
    /\ ring.thread[a].pc \in {"exit", "panic"}
    /\ Ring([ring EXCEPT !.channel[rx_of(a)] = drop_receiver(@),
                         !.channel[tx_of(a)] = drop_sender(@),
                         !.thread[a].pc = IF @ = "exit" THEN "returned"
                                          ELSE "panicked"])

\* The orchestrator's closure is over: tx_input and rx_output are dropped.
main_dropped(channels) ==
    [channels EXCEPT ![0] = drop_sender(@), ![NumAmplifiers] = drop_receiver(@)]

main_panicked(message) ==
    [ring EXCEPT !.main = [@ EXCEPT !.pc = "panicked", !.message = message],
                 !.channel = main_dropped(@)]

\* tx_input.send(0).expect("Unable to send startup signal to first amplifier")
MainStart ==
    /\ ring.main.pc = "start"
    /\ Ring(IF send_fails(ring.channel[0])
            THEN main_panicked("Unable to send startup signal to first amplifier")
            ELSE [ring EXCEPT !.channel[0] = send(@, 0), !.main.pc = "recv"])

\* A receive loop that keeps as `output` the first value it was given.
MainRecvFirst ==
    /\ ring.main.pc = "recv"
    /\ recv_ready(ring.channel[NumAmplifiers])
    /\ Ring([ring EXCEPT
                !.channel[NumAmplifiers] = received(@),
                !.main = [@ EXCEPT
                             !.pc = "send",
                             !.amplifier_output = Head(ring.channel[NumAmplifiers].buffer),
                             !.output = IF ring.main.received = <<>>
                                        THEN Head(ring.channel[NumAmplifiers].buffer)
                                        ELSE @,
                             !.received = Append(@, Head(ring.channel[NumAmplifiers].buffer))]])

\* while let Ok(amplifier_output) = rx_output.recv() { output = amplifier_output;
MainRecv ==
    /\ ring.main.pc = "recv"
    /\ recv_ready(ring.channel[NumAmplifiers])
    /\ Ring([ring EXCEPT
                !.channel[NumAmplifiers] = received(@),
                !.main = [@ EXCEPT
                             !.pc = "send",
                             !.amplifier_output = Head(ring.channel[NumAmplifiers].buffer),
                             !.output = Head(ring.channel[NumAmplifiers].buffer),
                             !.received = Append(@, Head(ring.channel[NumAmplifiers].buffer))]])

\* let _ = tx_input.send(amplifier_output); }
MainSend ==
    /\ ring.main.pc = "send"
    /\ Ring([ring EXCEPT
                !.channel[0] = send(@, ring.main.amplifier_output),
                !.main = [@ EXCEPT
                             !.pc = "recv",
                             !.forwarded = Append(@, ring.main.amplifier_output)]])

\* rx_output.recv() returns Err: the while loop is over.
MainLoopEnd ==
    /\ ring.main.pc = "recv"
    /\ recv_disconnected(ring.channel[NumAmplifiers])
    /\ Ring([ring EXCEPT !.main.pc = "join"])

\* thread.join().expect("Unable to join ACS thread"), in the order of the
\* amplifiers; join returns once the thread is over.
MainJoin ==
    /\ ring.main.pc = "join"
    /\ ring.main.joined < NumAmplifiers
    /\ ring.thread[ring.main.joined + 1].pc \in {"returned", "panicked"}
    /\ Ring(IF ring.thread[ring.main.joined + 1].pc = "panicked"
            THEN main_panicked("Unable to join ACS thread")
            ELSE [ring EXCEPT !.main.joined = @ + 1])

\* The closure returns `output`.
MainReturn ==
    /\ ring.main.pc = "join"
    /\ ring.main.joined = NumAmplifiers
    /\ Ring([ring EXCEPT !.main.pc = "returned", !.channel = main_dropped(@)])

\* The steps of the thread of amplifier a, and of the orchestrator.
Amp(a) ==
    \/ AmpCall(a)
    \/ AmpRecv(a)
    \/ AmpRecvFail(a)
    \/ AmpSend(a)
    \/ AmpExit(a)

Main ==
    \/ MainStart
    \/ MainRecv
    \/ MainSend
    \/ MainLoopEnd
    \/ MainJoin
    \/ MainReturn

RingNext ==
    \/ \E a \in Amplifiers : AmpCall(a)
    \/ \E a \in Amplifiers : AmpRecv(a)
    \/ \E a \in Amplifiers : AmpRecvFail(a)
    \/ \E a \in Amplifiers : AmpSend(a)
    \/ \E a \in Amplifiers : AmpExit(a)
    \/ MainStart
    \/ MainRecv
    \/ MainSend
    \/ MainLoopEnd
    \/ MainJoin
    \/ MainReturn

RingSpec == RingInit /\ [][RingNext]_vars

\* A thread is over: run_amplifier, or the orchestrator's closure, has
\* returned or unwound.
over(pc) == pc \in {"returned", "panicked"}

\* Some thread is neither blocked (in recv() on a channel with nothing
\* buffered and a live Sender, in join() on a running thread) nor over:
\* ENABLED <<RingNext>>_vars, from the guards of the actions.
Schedulable ==
    \/ \E a \in Amplifiers :
          \/ ring.thread[a].pc \in {"loop", "send", "exit", "panic"}
          \/ /\ ring.thread[a].pc = "recv"
             /\ \/ recv_ready(ring.channel[rx_of(a)])
                \/ recv_disconnected(ring.channel[rx_of(a)])
    \/ ring.main.pc \in {"start", "send"}
    \/ /\ ring.main.pc = "recv"
       /\ \/ recv_ready(ring.channel[NumAmplifiers])
          \/ recv_disconnected(ring.channel[NumAmplifiers])
    \/ /\ ring.main.pc = "join"
       /\ \/ ring.main.joined = NumAmplifiers
          \/ over(ring.thread[ring.main.joined + 1].pc)

\* The ring under a fair scheduler, for the programs whose threads exchange
\* values.
FairRingInit ==
    \E source \in RingPrograms \ {ReadWrite} : Spawned(source, <<5, 6, 7, 8, 9>>)

\* The scheduler lets a thread run whenever one can take a step (weak
\* fairness of RingNext, its ENABLED written as Schedulable): the ring
\* does not stop while a thread is neither blocked nor over.
FairRingSpec ==
    /\ FairRingInit
    /\ [][RingNext]_vars
    /\ ([]<>~Schedulable \/ []<><<RingNext>>_vars)

----------------------------------------------------------------------------
(* Day 4: groups of identical adjacent digits *)

MaxDigits == 3

RECURSIVE pow(_, _)
pow(b, e) == IF e = 0 THEN 1 ELSE b * pow(b, e - 1)

\* u32::to_string().chars(): the decimal characters, first character first.
chars(i) ==
    LET r == rev_digits(i)
    IN  [k \in 1..Len(r) |-> r[Len(r) + 1 - k]]

\* Itertools::group_by(|d| d.clone()): the runs of consecutive equal keys, in
\* order, each with its key and (what iter.count() finds) its length.
RECURSIVE group_by(_)
group_by(s) ==
    IF s = <<>> THEN <<>>
    ELSE LET rest == group_by(Tail(s))
         IN  IF rest # <<>> /\ rest[1].key = Head(s)
             THEN <<[key |-> Head(s), count |-> rest[1].count + 1]>>
                      \o Tail(rest)
             ELSE <<[key |-> Head(s), count |-> 1]>> \o rest

\* The two closures run() passes: |n| n >= 2 and |n| n == 2.
Predicates == {"n >= 2", "n == 2"}

predicate(name, n) == IF name = "n >= 2" THEN n >= 2 ELSE n = 2

\* iter.count() as u8
as_u8(n) == n % 256

\* .any(|(_group, iter)| predicate(iter.count() as u8))
number_groups_sizes_match(i, name) ==
    LET groups == group_by(chars(i))
    IN  \E g \in 1..Len(groups) : predicate(name, as_u8(groups[g].count))

Numbers == 0..(pow(10, MaxDigits) - 1)

GroupInit ==
    /\ \E i \in Numbers, name \in Predicates :
           hist = [op |-> "number", i |-> i, predicate |-> name,
                   matches |-> FALSE]
    /\ vm = NoProgram
    /\ call = "none"
    /\ ret = NoRet
    /\ ring = NoRing

\* .filter(|i| number_groups_sizes_match(i, predicate))
GroupMatch ==
    /\ hist.op = "number"
    /\ hist' = [hist EXCEPT
                   !.op = "number_groups_sizes_match",
                   !.matches = number_groups_sizes_match(hist.i, hist.predicate)]
    /\ UNCHANGED <<vm, call, ret, ring>>

GroupNext == GroupMatch

GroupSpec == GroupInit /\ [][GroupNext]_vars

----------------------------------------------------------------------------
(* Day 7, first answer: the amplifiers in series *)

\* An amplifier that outputs the sum of its two inputs and then its phase
\* setting.
SumThenSetting == <<3, 0, 3, 1, 1, 0, 1, 1, 4, 1, 4, 0, 99>>

ChainPrograms == {Amplifier(1), SumThenSetting, ReadWrite, Silent, Greedy}

\* Some of (0..5).permutations(5).
ChainSettings == {<<0, 1, 2, 3, 4>>, <<4, 3, 2, 1, 0>>, <<2, 0, 4, 1, 3>>}

\* The fold of one phase setting sequence starts with output_signal = 0.
ChainInit ==
    /\ \E source \in ChainPrograms, phase_setting_sequence \in ChainSettings :
           ring = [source |-> source,
                   phase_setting_sequence |-> phase_setting_sequence,
                   pc |-> "fold",          \* fold, run, returned, panicked
                   folded |-> 0,           \* settings the fold has consumed
                   output_signal |-> 0,    \* the accumulator of the fold
                   outputs |-> <<>>,       \* what execute() returned, per amplifier
                   message |-> ""]
    /\ vm = NoProgram
    /\ call = "none"
    /\ ret = NoRet
    /\ hist = NoHistory(NoProgram)

\* The phase setting the closure of the fold is called with next.
setting == ring.phase_setting_sequence[ring.folded + 1]

\* The closure of the fold builds the amplifier and gives it its input
\* source: ordinal 0 is the setting, ordinal 1 the output signal, any other
\* ordinal fails with "Too many inputs".
ChainAmplifier ==
    /\ ring.pc = "fold"
    /\ ring.folded < NumAmplifiers
    /\ vm' = from_str(ring.source, <<setting, ring.output_signal>>)
    /\ call' = "none"
    /\ ret' = NoRet
    /\ hist' = NoHistory(vm')
    /\ ring' = [ring EXCEPT !.pc = "run"]

\* program.execute()
ChainExecute ==
    /\ ring.pc = "run"
    /\ hist.calls = 0
    /\ Execute

\* One iteration of the loop of execute0 inside that call.
ChainExecute0Loop ==
    /\ ring.pc = "run"
    /\ Execute0Loop

\* match program.execute() { Ok(output) => output[0], Err(e) => panic!(e) }
chain_match(result) ==
    CASE result.kind = "Ok" /\ result.outputs /= <<>> ->
            [ring EXCEPT !.folded = @ + 1,
                         !.output_signal = result.outputs[1],
                         !.outputs = Append(@, result.outputs),
                         !.pc = IF ring.folded + 1 = NumAmplifiers
                                THEN "returned" ELSE "fold"]
      [] result.kind = "Ok" /\ result.outputs = <<>> ->
            [ring EXCEPT !.pc = "panicked", !.message = "index out of bounds"]
      [] OTHER ->
            [ring EXCEPT !.pc = "panicked", !.message = result.message]

ChainMatch ==
    /\ ring.pc = "run"
    /\ call = "none"
    /\ hist.calls = 1
    /\ ring' = chain_match(ret)
    /\ UNCHANGED <<vm, call, ret, hist>>

ChainNext ==
    \/ ChainAmplifier
    \/ ChainExecute
    \/ ChainExecute0Loop
    \/ ChainMatch

ChainSpec == ChainInit /\ [][ChainNext]_vars

----------------------------------------------------------------------------
(* Properties of the suspend / resume controller *)

RunCalls == {"execute", "until"}

\* The last operation was the run call `entry` and it is over (returned or
\* unwound).
Finished(entry) == call = "none" /\ hist.op = entry

\* The last operation was the run call `entry` and it has returned.
HasReturned(entry) == Finished(entry) /\ ret.kind \in {"Ok", "Err"}

\* The instance had halted, and was not running, when the last run call
\* started.
StartedHalted == hist.halted_before /\ ~hist.pre.running

Last(s) == s[Len(s)]

NoOutput == [kind |-> "Err", outputs |-> <<>>, value |-> 0, message |-> "No output"]

\* C1: a call of execute_until_next_output made on an instance that has
\* halted returns Err("No output") and leaves the memory and the outputs as
\* they were before the call.
C1_HaltedCallIsNoOp ==
    (Finished("until") /\ StartedHalted) =>
        /\ ret = NoOutput
        /\ vm.memory = hist.pre.memory
        /\ vm.output = hist.pre.output

\* A state in which C1's case has happened: a call of
\* execute_until_next_output made on a halted instance is over.
C1_Reached == Finished("until") /\ StartedHalted

\* The last run call was execute_until_next_output and it ended because
\* forward() returned Ok(false), with no output added during the call.
HaltedWithoutOutput ==
    /\ Finished("until")
    /\ hist.last_forward = "Ok(false)"
    /\ Len(vm.output) = Len(hist.pre.output)

C4_PausesAtFirstOutput ==
    hist.op = "until" =>
        /\ Len(vm.output) <= Len(hist.pre.output) + 1
        /\ Len(vm.output) = Len(hist.pre.output) + 1 =>
               /\ call = "none"
               /\ ret = [kind |-> "Ok", outputs |-> <<>>,
                         value |-> Last(vm.output), message |-> ""]
               /\ vm.running
               /\ hist.last_forward = "Ok(true)"
               /\ SubSeq(vm.output, 1, Len(hist.pre.output)) = hist.pre.output

\* A call of execute_until_next_output has paused at a new output after
\* more than one instruction, on outputs that already held a value.
C4_Reached ==
    /\ Finished("until")
    /\ Len(vm.output) = Len(hist.pre.output) + 1
    /\ hist.pre.output /= <<>>
    /\ hist.call_steps > 1

\* C6: once the instance has halted, a further run call neither makes
\* is_running() true again nor executes an instruction nor moves the
\* pointer back to zero.
C6_HaltedIsTerminal ==
    (hist.op \in RunCalls /\ hist.halted_before) =>
        /\ ~vm.running
        /\ hist.call_steps = 0
        /\ vm.pointer = hist.pre.pointer

\* C7: is_running() is false until the first run call; true when
\* execute_until_next_output has returned a new output; false when a run
\* call has returned because of Halt; and execute() then returns all the
\* outputs.
C7_IsRunning ==
    /\ hist.calls = 0 => ~vm.running
    /\ (HasReturned("until") /\ Len(vm.output) > Len(hist.pre.output)) => vm.running
    /\ \A entry \in RunCalls :
           (HasReturned(entry) /\ hist.last_forward = "Ok(false)") => ~vm.running
    /\ (HasReturned("execute") /\ hist.last_forward = "Ok(false)") =>
           ret = [kind |-> "Ok", outputs |-> vm.output, value |-> 0, message |-> ""]

\* execute() has returned the outputs of a program that produced some, and
\* before that a call of execute_until_next_output had paused.
C7_Reached ==
    /\ HasReturned("execute")
    /\ hist.last_forward = "Ok(false)"
    /\ Len(ret.outputs) > 1
    /\ hist.returned /= <<>>

\* C8: once a run call has returned an error, a later run call executes
\* no instruction and leaves memory, pointer and outputs unchanged.
C8_ErrorIsFinal ==
    (hist.op \in RunCalls /\ hist.errored_before) =>
        /\ hist.call_steps = 0
        /\ vm.memory = hist.pre.memory
        /\ vm.pointer = hist.pre.pointer
        /\ vm.output = hist.pre.output

\* C5, between calls and at the entry: while the instance is paused and no
\* call is in progress, a step that starts a run call changes nothing of
\* the instance, and any other step changes nothing but the memory, and
\* the memory only by patch().
C5_PausedStep ==
    (call = "none" /\ vm.running) =>
        /\ call' /= "none" => vm' = vm
        /\ call' = "none" =>
               /\ [vm' EXCEPT !.memory = vm.memory] = vm
               /\ vm'.memory /= vm.memory => hist'.op = "patch"

\* C5: a run call made on a paused instance decodes its first instruction
\* at the pointer the previous call left, and nothing of the instance is
\* reset or changed between that return and that decode.
C5_ResumeWhereLeft ==
    /\ [][C5_PausedStep]_vars
    /\ [](  (hist.op \in RunCalls /\ hist.pre.running /\ hist.call_steps >= 1)
            => hist.first_pointer = hist.pre.pointer)

\* execute() has resumed a paused instance away from address 0 and
\* executed at least one instruction.
C5_Reached ==
    /\ hist.op = "execute"
    /\ hist.pre.running
    /\ hist.pre.pointer > 0
    /\ hist.call_steps >= 1

----------------------------------------------------------------------------
(* Properties of the memory *)

\* Addresses around the end of the memory and at the start of it.
ProbeAddrs(memory) == 0..(Len(memory) + MaxPatchAddr)

\* C9: right after patch(a, v), get(a) is v, and get(b) for every other
\* address b is what it was before the patch.
C9_PatchThenGet ==
    hist.op = "patch" =>
        /\ get(vm.memory, hist.address) = hist.value
        /\ \A b \in ProbeAddrs(vm.memory) \ {hist.address} :
               get(vm.memory, b) = get(hist.pre.memory, b)

\* patch() has written beyond the end of the memory, leaving a gap.
C9_Reached == hist.op = "patch" /\ hist.address > Len(hist.pre.memory)

\* C10, writes: a step that makes the memory longer keeps every cell it had
\* and fills the new cells with 0, but for the last one.
C10_Growth ==
    Len(vm'.memory) > Len(vm.memory) =>
        /\ SubSeq(vm'.memory, 1, Len(vm.memory)) = vm.memory
        /\ \A i \in (Len(vm.memory) + 1)..(Len(vm'.memory) - 1) : vm'.memory[i] = 0

\* C10: reads at or beyond the end of the memory give 0 and change
\* nothing; a write at len + k does not fail, makes the length len + k + 1,
\* keeps the cells below len and leaves 0 in the cells from len to
\* len + k - 1.
C10_ZeroFilledTape ==
    /\ [](\A a \in Len(vm.memory)..(Len(vm.memory) + MaxPatchAddr) :
              get(vm.memory, a) = 0)
    /\ []((hist.op = "get" /\ hist.address >= Len(hist.pre.memory)) =>
              (ret.value = 0 /\ vm = hist.pre))
    /\ [](\A a \in ProbeAddrs(vm.memory) : ~set_panics(vm.memory, a))
    /\ []((hist.op = "patch" /\ hist.address >= Len(hist.pre.memory)) =>
              /\ Len(vm.memory) = hist.address + 1
              /\ vm.memory[hist.address + 1] = hist.value)
    /\ [][C10_Growth]_vars

\* A write of the program itself has grown the memory over a gap.
C10_Reached ==
    /\ hist.op \in RunCalls
    /\ Len(vm.memory) > Len(hist.pre.memory) + 1

----------------------------------------------------------------------------
(* execute() against repeated execute_until_next_output() (PumpSpec) *)

\* The caller has pumped the second instance until is_running() is false.
Pumped == ~First /\ call = "none" /\ hist.op = "until" /\ ~vm.running

\* The values the calls of execute_until_next_output have returned.
ReturnedValues == [i \in 1..Len(hist.returned) |-> hist.returned[i].value]

----------------------------------------------------------------------------
(* Properties of single steps (StepSpec) *)

\* The last run call has made a forward(): hist.fwd_pre is the instance
\* when the last one started, hist.last_forward what it returned, and vm
\* the instance it left.
Stepped == hist.op \in RunCalls /\ hist.call_steps >= 1

Pre == hist.fwd_pre

\* The instruction word of a step that starts on p, and its parts as the
\* instruction set defines them for a word w >= 0.
Word(p) == get(p.memory, p.pointer)
OpcodeOf(w) == w % 100
ModeDigit(w, i) == (w \div (10 ^ (i + 1))) % 10
Supported == {1, 2, 3, 4, 5, 6, 7, 8, 9, 99}
Arity(op) ==
    CASE op \in {1, 2, 7, 8} -> 3
      [] op \in {5, 6} -> 2
      [] op \in {3, 4, 9} -> 1
      [] OTHER -> 0

\* Parameter i of the instruction at the pointer of p: its raw word, the
\* address it names (position, relative) and its value as an operand.
Data(p, i) == get(p.memory, p.pointer + i)
Base(p) == AsIsize(p.relative_base)
Address(p, i) ==
    IF ModeDigit(Word(p), i) = 2 THEN Base(p) + Data(p, i) ELSE Data(p, i)
Value(p, i) ==
    IF ModeDigit(Word(p), i) = 1 THEN Data(p, i) ELSE get(p.memory, Address(p, i))

\* The last forward() decoded an instruction of opcode op.
Executed(op) ==
    /\ Stepped
    /\ parse_instruction(Pre).kind = "Ok"
    /\ OpcodeOf(Word(Pre)) = op

\* The opcodes that write, and the number of their write-target parameter.
Writers == {1, 2, 3, 7, 8}
Target(op) == IF op = 3 THEN 1 ELSE 3

\* The messages of the errors forward() raises for an unknown opcode, a
\* pointer outside the memory and a failed input request.
UnknownOpcode == "Unexpected opcode"
DanglingPointer == "Dangling internal pointer"
InputUnavailable == "Too many inputs"

\* The last forward() failed with an error of its own kind about an
\* address.
InvalidAddress ==
    /\ hist.last_forward = "Err"
    /\ ret.message \notin {UnknownOpcode, DanglingPointer, InputUnavailable}

\* C11: a step of opcode 1, 2, 3, 7 or 8 whose write-target parameter has
\* mode digit 1 (immediate) fails with the address error and leaves the
\* memory as it was.
C11_ImmediateTargetRejected ==
    \A op \in Writers :
        (Executed(op) /\ ModeDigit(Word(Pre), Target(op)) = 1) =>
            (InvalidAddress /\ vm.memory = Pre.memory)

\* Parameter i of the instruction on p is resolved through an address
\* (mode digit 0 or 2) and that address is negative. For a jump only the
\* condition, parameter 1, is looked at.
NegativeAddress(p, i) ==
    /\ i <= Arity(OpcodeOf(Word(p)))
    /\ OpcodeOf(Word(p)) \in {5, 6} => i = 1
    /\ ModeDigit(Word(p), i) \in {0, 2}
    /\ Address(p, i) < 0

\* C12: a step one of whose parameters resolves to a negative address, as
\* an operand or as the write target, fails with the address error, and
\* nothing is read into the outputs or written to the memory.
C12_NegativeAddressRejected ==
    \A op \in Supported :
        (Executed(op) /\ \E i \in 1..3 : NegativeAddress(Pre, i)) =>
            /\ InvalidAddress
            /\ vm.memory = Pre.memory
            /\ vm.output = Pre.output

\* C13: every forward() ends with Ok(true), Ok(false) or an error, never
\* by unwinding the thread; and with Ok(false) exactly when the
\* instruction it decoded has opcode 99.
C13_StepNeverAborts ==
    Stepped =>
        /\ hist.last_forward \in {"Ok(true)", "Ok(false)", "Err"}
        /\ hist.last_forward = "Ok(false)" <=> Executed(99)

\* C14: a step whose instruction word is negative, or has no supported
\* opcode in its two last digits, fails with the unknown-opcode error and
\* leaves the whole instance (pointer, memory, relative base, input cursor,
\* outputs) as it was.
C14_UnknownOpcodeFails ==
    (/\ Stepped
     /\ Pre.pointer < Len(Pre.memory)
     /\ Word(Pre) < 0 \/ OpcodeOf(Word(Pre)) \notin Supported) =>
        /\ hist.last_forward = "Err"
        /\ ret = [kind |-> "Err", outputs |-> <<>>, value |-> 0,
                  message |-> UnknownOpcode]
        /\ vm = Pre

\* A step has met, away from address 0 and with a relative base that is
\* not 0, a negative word whose remainder modulo 100 would be a supported
\* opcode had it the sign of the divisor.
C14_Reached ==
    /\ Stepped
    /\ Pre.pointer > 0
    /\ Pre.pointer < Len(Pre.memory)
    /\ Pre.relative_base /= 0
    /\ Word(Pre) < 0
    /\ OpcodeOf(Word(Pre)) \in Supported

\* The mode the instruction set gives to a mode digit.
ModeOf(digit) ==
    CASE digit = 0 -> "Position"
      [] digit = 1 -> "Immediate"
      [] digit = 2 -> "Relative"

\* C15: an instruction word w >= 0 with a supported opcode of arity n is
\* decoded into exactly n parameters; parameter i has for data the word at
\* pointer + i and for mode the one of its digit (for the digits 0, 1, 2).
C15_DecodesArityParameters ==
    \A op \in Supported :
        Executed(op) =>
            /\ Len(parse_instruction(Pre).instruction.parameters) = Arity(op)
            /\ \A i \in 1..Arity(op) :
                   /\ parse_instruction(Pre).instruction.parameters[i].data
                          = Data(Pre, i)
                   /\ ModeDigit(Word(Pre), i) \in Modes =>
                          parse_instruction(Pre).instruction.parameters[i].mode
                              = ModeOf(ModeDigit(Word(Pre), i))

\* The word w without the digits above those of its opcode's parameters.
Stripped(w) == w % (10 ^ (Arity(OpcodeOf(w)) + 2))

\* The instruction word on p has a supported opcode and more mode digits
\* than this opcode has parameters.
MoreDigits(p) ==
    /\ p.pointer < Len(p.memory)
    /\ Word(p) >= 0
    /\ OpcodeOf(Word(p)) \in Supported
    /\ Stripped(Word(p)) /= Word(p)

\* One of the parameters of the instruction on p names the cell of the
\* instruction word itself.
NamesItself(p) ==
    \E i \in 1..Arity(OpcodeOf(Word(p))) :
        ModeDigit(Word(p), i) /= 1 /\ Address(p, i) = p.pointer

\* p with the instruction word at its pointer replaced by w.
WithWord(p, w) == [p EXCEPT !.memory[p.pointer + 1] = w]

\* Two instances that differ at most by the cell at `address`.
SameButCell(p, q, address) ==
    /\ [p.memory EXCEPT ![address + 1] = 0] = [q.memory EXCEPT ![address + 1] = 0]
    /\ p.pointer = q.pointer
    /\ p.relative_base = q.relative_base
    /\ p.output = q.output

\* C16: a step on a word with more mode digits than parameters has the
\* result, and leaves the memory (but for the instruction word), the
\* pointer, the relative base and the outputs, of the step on the same
\* instance with the word stripped of these digits.
C16_MoreDigitsIgnored ==
    (Stepped /\ MoreDigits(Pre) /\ ~NamesItself(Pre)) =>
        /\ forward(WithWord(Pre, Stripped(Word(Pre)))).result = hist.last_forward
        /\ SameButCell(forward(WithWord(Pre, Stripped(Word(Pre)))).vm, vm,
                       Pre.pointer)

\* Parameter i of the instruction on p is an operand the instruction set
\* gives a value to: its mode digit is 0, 1 or 2 and, unless immediate,
\* its address is not negative.
Readable(p, i) ==
    /\ ModeDigit(Word(p), i) \in Modes
    /\ ModeDigit(Word(p), i) /= 1 => Address(p, i) >= 0

\* Parameter i of the instruction on p is a write target the instruction
\* set gives an address to: position or relative mode, not negative.
Writable(p, i) ==
    /\ ModeDigit(Word(p), i) \in {0, 2}
    /\ Address(p, i) >= 0

\* What the instruction set has opcodes 1, 2, 7 and 8 store.
Computed(op, a, b) ==
    CASE op = 1 -> a + b
      [] op = 2 -> a * b
      [] op = 7 -> IF a < b THEN 1 ELSE 0
      [] op = 8 -> IF a = b THEN 1 ELSE 0

\* The memories m and n agree everywhere but at `address`.
SameButAt(m, n, address) ==
    \A b \in (0..(Len(m) + Len(n))) \ {address} : get(m, b) = get(n, b)

\* The first run call, execute(), has run `memory` up to Halt.
Ran(memory) ==
    /\ Finished("execute")
    /\ hist.calls = 1
    /\ hist.pre.memory = memory
    /\ hist.last_forward = "Ok(false)"

Taken(op, p) ==
    \/ op = 5 /\ Value(p, 1) /= 0
    \/ op = 6 /\ Value(p, 1) = 0

\* The last forward() returned Ok(true) on an instruction of opcode op
\* whose operands the instruction set gives a value to.
Succeeded(op) ==
    /\ Executed(op)
    /\ hist.last_forward = "Ok(true)"
    /\ op \in {5, 6} => (Readable(Pre, 1) /\ Readable(Pre, 2))

\* C18 as claimed: after a successful step the pointer is the one before
\* plus arity + 1, or, for a jump that is taken, the value of parameter 2.
C18_PointerAfterStep ==
    \A op \in Supported \ {99} :
        Succeeded(op) =>
            vm.pointer = IF Taken(op, Pre) THEN Value(Pre, 2)
                         ELSE Pre.pointer + Arity(op) + 1

\* C18 amended: for a jump that is taken the pointer is the value of
\* parameter 2 when it is not negative; a negative value is converted to
\* the unsigned word (value + UsizeRange), which is beyond every memory,
\* and the step that follows fails with the dangling-pointer error.
C18_PointerAfterStepUnsigned ==
    /\ \A op \in Supported \ {99} :
           Succeeded(op) =>
               vm.pointer = IF Taken(op, Pre)
                            THEN IF Value(Pre, 2) >= 0 THEN Value(Pre, 2)
                                 ELSE Value(Pre, 2) + UsizeRange
                            ELSE Pre.pointer + Arity(op) + 1
    /\ (Stepped /\ Pre.pointer > IsizeMax) =>
           /\ hist.last_forward = "Err"
           /\ ret.message = DanglingPointer
           /\ vm = Pre

\* A step has failed on the pointer a jump to a negative value left.
C18_Reached ==
    /\ Stepped
    /\ Pre.pointer > IsizeMax
    /\ hist.call_steps >= 3

\* The value a relative-mode operand of offset d reads on p.
ReadRelative(p, d) ==
    get_parameter(p, [opcode |-> [tag |-> "Output", f |-> ""],
                      parameters |-> <<[data |-> d, mode |-> "Relative"]>>], 0)

\* What the instruction set has the writing opcode op store from p.
Written(op, p) ==
    IF op = 3 THEN p.input_source[p.input_count + 1]
    ELSE Computed(op, Value(p, 1), Value(p, 2))

\* C19: after a successful write through a relative-mode target of offset
\* d, with base + d >= 0, the base is unchanged and a relative-mode
\* operand of offset d reads the value written; the example programs,
\* which adjust the base by 2000, write beyond the memory and read back,
\* output what they wrote.
C19_RelativeRoundTrip ==
    /\ \A op \in Writers :
           (/\ Executed(op)
            /\ hist.last_forward = "Ok(true)"
            /\ ModeDigit(Word(Pre), Target(op)) = 2
            /\ Address(Pre, Target(op)) >= 0
            /\ op /= 3 => (Readable(Pre, 1) /\ Readable(Pre, 2))) =>
               /\ vm.relative_base = Pre.relative_base
               /\ ReadRelative(vm, Data(Pre, Target(op))) = Some(Written(op, Pre))
    /\ Ran(RelativeRoundTrip) => vm.output = <<7>>
    /\ (Ran(RelativeInput) /\ vm.input_source /= <<>>) => vm.output = <<42>>

\* A value written through a relative-mode target 2000 cells and more
\* beyond the memory has been read back and output.
C19_Reached ==
    /\ Executed(4)
    /\ ModeDigit(Word(Pre), 1) = 2
    /\ Base(Pre) = 2000
    /\ Address(Pre, 1) > 2000
    /\ vm.output = <<7>>

\* C20, one step: the input cursor stays or grows by one.
C20_CursorStep == vm'.input_count \in {vm.input_count, vm.input_count + 1}

\* C20: the k-th call of the input source (k from 0, over the run calls of
\* the instance, failed requests included) has ordinal k; an Input step
\* moves the cursor by one, whether the request fails or not, and when it
\* succeeds leaves the value of that ordinal at its write target; the
\* cursor never goes back and never moves by more than one; 3,0,4,0,99
\* outputs the first value of its input source.
C20_InputOrdinals ==
    /\ [](hist.requested = [k \in 1..Len(hist.requested) |-> k - 1])
    /\ [](vm.input_count = Len(hist.requested))
    /\ []((Executed(3) /\ hist.last_forward \in {"Ok(true)", "Err"}) =>
              vm.input_count = Pre.input_count + 1)
    /\ []((Executed(3) /\ hist.last_forward = "Ok(true)" /\ Writable(Pre, 1)) =>
              get(vm.memory, Address(Pre, 1)) = Pre.input_source[Pre.input_count + 1])
    /\ []((Executed(3) /\ hist.last_forward = "Err") =>
              (Pre.input_count >= Len(Pre.input_source)
                   /\ ret.message = InputUnavailable))
    /\ []((Ran(ReadWrite) /\ vm.input_source /= <<>>) => vm.output = <<42>>)
    /\ [][C20_CursorStep]_vars

\* After a pause, a third Input instruction has asked for ordinal 2 and
\* the input source, which has two values, has failed.
C20_Reached ==
    /\ Executed(3)
    /\ hist.last_forward = "Err"
    /\ hist.requested = <<0, 1, 2>>
    /\ hist.returned /= <<>>

\* s is a prefix of t.
IsPrefix(s, t) == Len(s) <= Len(t) /\ SubSeq(t, 1, Len(s)) = s

\* C21, one step: the outputs keep what they hold and grow by one value
\* at most, at their end.
C21_OutputStep ==
    /\ IsPrefix(vm.output, vm'.output)
    /\ Len(vm'.output) <= Len(vm.output) + 1

\* C21: over all steps and run calls the outputs only grow at their end;
\* a step of opcode 4 appends the value of its parameter, and nothing
\* else, and a step of any other opcode, or one that fails, leaves the
\* outputs as they were.
C21_OutputAppendOnly ==
    /\ [][C21_OutputStep]_vars
    /\ []((Executed(4) /\ Readable(Pre, 1)) =>
              (hist.last_forward = "Ok(true)"
                   /\ vm.output = Append(Pre.output, Value(Pre, 1))))
    /\ []((Stepped /\ ~Executed(4)) => vm.output = Pre.output)

\* A run call made after another one has appended, through a relative
\* operand, a value different from the one the outputs held.
C21_Reached ==
    /\ Executed(4)
    /\ hist.calls >= 2
    /\ ModeDigit(Word(Pre), 1) = 2
    /\ Len(vm.output) >= 2
    /\ vm.output[Len(vm.output)] /= vm.output[Len(vm.output) - 1]

\* A parameter of mode `mode` and data `data`, as an operand of p.
Operand(p, data, mode) ==
    get_parameter(p, [opcode |-> [tag |-> "Output", f |-> ""],
                      parameters |-> <<[data |-> data, mode |-> mode]>>], 0)

\* Parameter i of the instruction on p is one of its operands.
IsOperand(p, i) ==
    \/ OpcodeOf(Word(p)) \in {1, 2, 5, 6, 7, 8} /\ i \in {1, 2}
    \/ OpcodeOf(Word(p)) \in {4, 9} /\ i = 1

\* One of the parameters of the instruction on p names, as an address, the
\* cell of the instruction word or the cell of parameter i.
NamesCells(p, i) ==
    \E j \in 1..Arity(OpcodeOf(Word(p))) :
        ModeDigit(Word(p), j) /= 1 /\ Address(p, j) \in {p.pointer, p.pointer + i}

\* p with parameter i of its instruction turned from immediate mode to
\* position mode on the cell a.
FromCell(p, i, a) ==
    [p EXCEPT !.memory[p.pointer + 1] = @ - 10 ^ (i + 1),
              !.memory[p.pointer + i + 1] = a]

\* Two instances that differ at most by the cells at `cells`.
SameButCells(p, q, cells) ==
    /\ Len(p.memory) = Len(q.memory)
    /\ \A b \in (0..(Len(p.memory) - 1)) \ cells : get(p.memory, b) = get(q.memory, b)
    /\ p.pointer = q.pointer
    /\ p.relative_base = q.relative_base
    /\ p.output = q.output

\* C22: a position-mode operand on a cell reads what an immediate operand
\* holding the value of that cell reads; and a step one of whose operands
\* is immediate has the result, the outputs, the pointer, the relative
\* base and the memory (but for the two cells that differ) of the same
\* step with this operand read from any other cell that holds the same
\* value; the two example programs, one with its literals immediate, one
\* with them in cells of their own, output the same values.
C22_ImmediateEqualsPosition ==
    /\ \A a \in 0..(Len(vm.memory) + 1) :
           Operand(vm, a, "Position") = Operand(vm, get(vm.memory, a), "Immediate")
    /\ \A i \in {1, 2} :
           (/\ \E op \in Supported : Executed(op)
            /\ IsOperand(Pre, i)
            /\ ModeDigit(Word(Pre), i) = 1
            /\ ~NamesCells(Pre, i)) =>
               \A a \in {b \in 0..(Len(Pre.memory) - 1) :
                             /\ b \notin {Pre.pointer, Pre.pointer + i}
                             /\ get(Pre.memory, b) = Data(Pre, i)} :
                   \A twin \in {forward(FromCell(Pre, i, a))} :
                       /\ twin.result = hist.last_forward
                       /\ SameButCells(twin.vm, vm, {Pre.pointer, Pre.pointer + i})
    /\ Ran(ImmediateLiterals) => vm.output = <<7, 5>>
    /\ Ran(CellLiterals) => vm.output = <<7, 5>>

\* An output step has appended an immediate value that is not 0 and that
\* another cell of the memory holds too.
C22_Reached ==
    /\ Executed(4)
    /\ ModeDigit(Word(Pre), 1) = 1
    /\ Data(Pre, 1) /= 0
    /\ \E a \in 0..(Len(Pre.memory) - 1) :
           a /= Pre.pointer + 1 /\ get(Pre.memory, a) = Data(Pre, 1)
    /\ vm.output /= <<>>

\* C23: when the input source fails in an Input step, the step fails, the
\* run call returns the error of the source, the memory, the outputs and
\* the relative base are as before the step, the pointer is kept advanced
\* by 2 and the input cursor incremented.
C23_InputFailureKept ==
    (Executed(3) /\ Pre.input_count >= Len(Pre.input_source)) =>
        /\ hist.last_forward = "Err"
        /\ call = "none"
        /\ ret = [kind |-> "Err", outputs |-> <<>>, value |-> 0,
                  message |-> InputUnavailable]
        /\ vm.memory = Pre.memory
        /\ vm.output = Pre.output
        /\ vm.relative_base = Pre.relative_base
        /\ vm.pointer = Pre.pointer + 2
        /\ vm.input_count = Pre.input_count + 1

\* The input source has failed, after it had given values, on an Input
\* step away from address 0 whose target is a cell of the memory that does
\* not hold 0.
C23_Reached ==
    /\ Executed(3)
    /\ Pre.input_count >= Len(Pre.input_source)
    /\ Pre.input_source /= <<>>
    /\ Pre.pointer > 0
    /\ Writable(Pre, 1)
    /\ get(Pre.memory, Address(Pre, 1)) /= 0

----------------------------------------------------------------------------
(* Properties of loading (LoadSpec) *)

\* The places that bound the tokens of the source s: before its first
\* character, at each comma, after its last character.
Cuts(s) == {0, Len(s) + 1} \cup {i \in 1..Len(s) : s[i] = ","}

\* The tokens of s that are not empty, as pairs <<a, b>> of cuts that
\* follow each other with characters in between; and the token of a pair.
TokenCuts(s) ==
    {c \in Cuts(s) \X Cuts(s) :
        /\ c[1] + 1 < c[2]
        /\ \A i \in Cuts(s) : ~(c[1] < i /\ i < c[2])}
Token(s, c) == SubSeq(s, c[1] + 1, c[2] - 1)

\* The digits of a token, without its sign if it has one.
Unsigned(t) == IF t[1] \in {"-", "+"} THEN Tail(t) ELSE t

\* The number a sequence of digits denotes in base 10.
RECURSIVE Base10(_)
Base10(ds) ==
    IF ds = <<>> THEN 0
    ELSE 10 * Base10(SubSeq(ds, 1, Len(ds) - 1)) + digit_value(ds[Len(ds)])

NumberOf(t) == IF t[1] = "-" THEN -Base10(Unsigned(t)) ELSE Base10(Unsigned(t))

\* The token is a base-10 integer of the machine: an optional sign, one
\* digit or more, and a value the word can hold.
IsInteger(t) ==
    /\ Unsigned(t) /= <<>>
    /\ \A i \in 1..Len(Unsigned(t)) : IsDigit(Unsigned(t)[i])
    /\ NumberOf(t) \in (-IsizeMax - 1)..IsizeMax

\* The error of from_str.
MalformedProgram == "Invalid source code: invalid numbers."

\* parse() has been called on the source.
Parsing == hist.op = "parse"

\* C24: parse() fails with the malformed-program error when a token of
\* the source that is not empty is no integer, and when the source has no
\* such token at all; otherwise it gives an instance whose memory holds
\* the numbers of the tokens in their order, from address 0, with pointer,
\* relative base and input cursor 0, no output and is_running() false.
C24_LoadContract ==
    Parsing =>
        IF \/ TokenCuts(hist.source_code) = {}
           \/ \E c \in TokenCuts(hist.source_code) :
                  ~IsInteger(Token(hist.source_code, c))
        THEN ret.kind = "Err" /\ ret.message = MalformedProgram
        ELSE /\ ret.kind = "Ok"
             /\ Len(vm.memory) = Cardinality(TokenCuts(hist.source_code))
             /\ \A c \in TokenCuts(hist.source_code) :
                    get(vm.memory,
                        Cardinality({d \in TokenCuts(hist.source_code) : d[1] < c[1]}))
                        = NumberOf(Token(hist.source_code, c))
             /\ vm.pointer = 0
             /\ vm.relative_base = 0
             /\ vm.input_count = 0
             /\ vm.output = <<>>
             /\ ~vm.running

\* C24 but for the source without a token: the same contract for the
\* sources that have one token or more.
C24_LoadWithTokens ==
    (Parsing /\ TokenCuts(hist.source_code) /= {}) => C24_LoadContract

----------------------------------------------------------------------------
(* Properties of the feedback ring (RingSpec, FairRingSpec) *)

\* The instance, the Output Log and the thread of amplifier a; what the
\* thread has given to tx.send; what its instance has consumed.
ProgramOf(a) == ring.program[a]
LogOf(a) == ring.program[a].output
ThreadOf(a) == ring.thread[a]
SentBy(a) == ring.thread[a].sends
ConsumedBy(a) == ring.program[a].input_source
Inbound(a) == ring.channel[rx_of(a)]
Outbound(a) == ring.channel[tx_of(a)]

\* The thread has left the loop of run_amplifier by its break, by a panic.
Broke(a) == ThreadOf(a).pc \in {"exit", "returned"}
Panicked(a) == ThreadOf(a).pc \in {"panic", "panicked"}
Terminated(a) == Broke(a) \/ Panicked(a)

\* A log followed by its last value once more.
ThenLastAgain(log) == IF log = <<>> THEN log ELSE Append(log, log[Len(log)])

\* Every step of the ring is taken from a state where a thread can run.
StepsOnlyWhenSchedulable == [][Schedulable]_vars

SenderPc(c) == IF c = 0 THEN ring.main.pc ELSE ring.thread[c].pc
ReceiverPc(c) == IF c = NumAmplifiers THEN ring.main.pc ELSE ring.thread[c + 1].pc

\* What the orchestrator has given to tx_input.send after the phase
\* setting: the start signal, then what it received, in that order.
ForwardedByMain == <<0>> \o ring.main.received

\* The inputs an amplifier has consumed are the first values sent on its
\* inbound channel, in send order: its phase setting, then what its
\* predecessor sent (for the first amplifier the start signal 0 and what
\* the orchestrator forwarded).
InputOrder ==
    \A a \in Amplifiers :
        /\ IsPrefix(ConsumedBy(a), Inbound(a).sent)
        /\ Inbound(a).sent[1] = ring.phase_setting_sequence[a]
        /\ IsPrefix(Tail(Inbound(a).sent),
                    IF a = 1 THEN ForwardedByMain ELSE SentBy(a - 1))

\* C26: every channel of the ring has at any time one sender and one
\* receiver, and what an amplifier has consumed is a prefix of what was
\* sent on its inbound channel: phase setting, (start signal,) then the
\* values of its predecessor in send order.
C26_OneSenderOneReceiver ==
    /\ \A c \in Channels : ring.channel[c].sender /\ ring.channel[c].receiver
    /\ InputOrder

\* C26, with the ends that are dropped: the Sender and the Receiver of a
\* channel are each held by one thread and alive exactly until that thread
\* is over; the order of the inputs is as in C26.
C26_EndsLiveWithTheirThread ==
    /\ \A c \in Channels :
           /\ ring.channel[c].sender = ~over(SenderPc(c))
           /\ ring.channel[c].receiver = ~over(ReceiverPc(c))
    /\ InputOrder

\* The first amplifier has consumed a value the orchestrator forwarded and
\* another one a second value of its predecessor, after a thread has ended.
C26_Reached ==
    /\ Len(ConsumedBy(1)) = 3
    /\ \E a \in Amplifiers \ {1} : Len(ConsumedBy(a)) = 3
    /\ \E c \in Channels : ~ring.channel[c].receiver

\* The program of the ring reads its phase setting, then k >= 1 times reads
\* one input and produces one output, then halts.
WellShaped == \E k \in 1..MaxRounds : ring.source = Amplifier(k)

\* The closure has returned its output: the receive loop has ended and
\* every join has succeeded; every worker has left by its break and every
\* instance has halted.
TerminatedNormally ==
    /\ ring.main.pc = "returned"
    /\ ring.main.joined = NumAmplifiers
    /\ \A a \in Amplifiers : ThreadOf(a).pc = "returned" /\ ~ProgramOf(a).running

\* No worker and no orchestrator has panicked.
NoPanic ==
    /\ ring.main.pc /= "panicked"
    /\ \A a \in Amplifiers : ~Panicked(a)

\* C27: under a fair scheduler the ring of a well-shaped amplifier program
\* terminates without deadlock: every worker exits normally, the receive
\* loop ends, every join succeeds, every instance ends not running; and no
\* thread panics on the way.
C27_Terminates ==
    WellShaped => (<>TerminatedNormally /\ []NoPanic)

\* The ring of the program of the most rounds has terminated.
C27_Reached ==
    /\ ring.source = Amplifier(MaxRounds)
    /\ TerminatedNormally
    /\ \A a \in Amplifiers : Len(LogOf(a)) = MaxRounds

\* Without a well-shaped program the ring can stop with every thread
\* blocked (Greedy), or end by a panic (Silent).
Blocked(a) == ThreadOf(a).pc = "recv" /\ recv_blocks(Inbound(a))
DeadlockReached ==
    /\ \A a \in Amplifiers : Blocked(a)
    /\ ring.main.pc = "recv" /\ recv_blocks(ring.channel[NumAmplifiers])

\* Every worker is over; what the last amplifier has sent; the
\* orchestrator has been stopped by the expect of its start signal.
AllWorkersOver == \A a \in Amplifiers : over(ThreadOf(a).pc)
SentByLast == SentBy(NumAmplifiers)
StartRefused ==
    ring.main.message = "Unable to send startup signal to first amplifier"

FinalValueBuffered ==
    /\ AllWorkersOver
    /\ ring.channel[NumAmplifiers].buffer /= <<>>
ReportsFinalOutput ==
    ring.main.pc = "returned" => ring.main.output = Last(LogOf(NumAmplifiers))

\* A worker stopped by an error has not been stopped by a send: by what
\* execute_until_next_output returned.
WorkerErrors == {"No output", "Cannot receive input"}

\* C29: a send on a channel whose receiver has been dropped is ignored,
\* whoever makes it: it stops neither a worker nor the orchestrator with an
\* error, and the value the orchestrator reports is the final output
\* whatever was sent in vain.
C29_FailedSendIgnored ==
    /\ ~StartRefused
    /\ \A a \in Amplifiers : Panicked(a) => ThreadOf(a).message \in WorkerErrors
    /\ ReportsFinalOutput

\* C29 for the sends of the two loops (run_amplifier's and the
\* orchestrator's while loop): the part of C29 that holds.
C29_LoopSendsIgnored ==
    /\ \A a \in Amplifiers : Panicked(a) => ThreadOf(a).message \in WorkerErrors
    /\ ring.main.pc = "panicked"
           => \/ StartRefused
              \/ /\ ring.main.message = "Unable to join ACS thread"
                 /\ \E a \in Amplifiers : Panicked(a)
    /\ ReportsFinalOutput

\* Sends have failed in a ring that ends normally: one of a worker and one
\* of the orchestrator's loop.
SendsInVain ==
    /\ ring.main.pc = "returned"
    /\ \E a \in Amplifiers : Len(Outbound(a).sent) < 1 + Len(SentBy(a))
    /\ Len(ring.channel[0].sent) < 2 + Len(ring.main.received)

\* The instance of the worker is in the middle of a forward(): the pointer
\* has been moved past the instruction, its effect is still to come.
MidStep(a) ==
    /\ ProgramOf(a).pointer /= ThreadOf(a).fwd_pre.pointer
    /\ ProgramOf(a).input_count = ThreadOf(a).fwd_pre.input_count
    /\ ProgramOf(a).memory = ThreadOf(a).fwd_pre.memory

\* The worker is inside its call of execute_until_next_output: the call
\* has set `running` and has not returned to the match of run_amplifier.
InsideCall(a) == ThreadOf(a).pc = "recv" /\ ProgramOf(a).running

\* C30: a worker is blocked only while it waits for its next input, and
\* never inside its instance: where it is blocked, the instance is neither
\* in the middle of a step nor inside a call of execute_until_next_output.
C30_NeverBlockedInsideVM ==
    \A a \in Amplifiers : Blocked(a) => ~MidStep(a) /\ ~InsideCall(a)

\* Where a worker is blocked it waits for an input, inside the forward()
\* of an Input instruction, inside execute_until_next_output.
C30_BlockedInsideInputStep ==
    \A a \in Amplifiers :
        Blocked(a) =>
            /\ requests_input(parse_instruction(ThreadOf(a).fwd_pre))
            /\ MidStep(a)
            /\ InsideCall(a)

----------------------------------------------------------------------------
(* Properties of the digit groups of day 4 *)

\* number_groups_sizes_match has returned.
Matched == hist.op = "number_groups_sizes_match"

\* The groups of identical adjacent digits of n: the maximal intervals of
\* positions of its decimal writing that hold one and the same digit.
GroupsOf(n) ==
    LET s == chars(n)
    IN  {g \in (1..Len(s)) \X (1..Len(s)) :
            /\ g[1] <= g[2]
            /\ \A k \in g[1]..g[2] : s[k] = s[g[1]]
            /\ g[1] = 1 \/ s[g[1] - 1] # s[g[1]]
            /\ g[2] = Len(s) \/ s[g[2] + 1] # s[g[2]]}

SizeOf(g) == g[2] - g[1] + 1

\* C31: number_groups_sizes_match(n, pred) is true exactly when the size of
\* every group of identical adjacent digits of n satisfies pred.
C31_AllGroupsMatch ==
    Matched =>
        (hist.matches <=>
            \A g \in GroupsOf(hist.i) : predicate(hist.predicate, SizeOf(g)))

\* What the function computes: it is true exactly when the size of at least
\* one group of identical adjacent digits of n satisfies pred.
C31_SomeGroupMatches ==
    Matched =>
        (hist.matches <=>
            \E g \in GroupsOf(hist.i) : predicate(hist.predicate, SizeOf(g)))

----------------------------------------------------------------------------
(* Properties of what a step leaves alone *)

\* The last forward() returned Ok on an instruction of opcode op.
Done(op) == Executed(op) /\ hist.last_forward \in {"Ok(true)", "Ok(false)"}

\* What the last forward() left as it found it.
KeptMemory == vm.memory = Pre.memory
KeptBase == vm.relative_base = Pre.relative_base
KeptCursor == vm.input_count = Pre.input_count
KeptOutput == vm.output = Pre.output

\* The addresses of the cells the last forward() changed.
ChangedCells ==
    {b \in 0..(Len(vm.memory) + Len(Pre.memory)) :
        get(vm.memory, b) /= get(Pre.memory, b)}

\* The last forward() changed no cell but, at most, one; when the
\* instruction set gives the write target of opcode op an address, it is
\* that one.
OneCell(op) ==
    /\ Cardinality(ChangedCells) <= 1
    /\ Writable(Pre, Target(op)) =>
           ChangedCells \subseteq {Address(Pre, Target(op))}

\* C32, one step of the model (the entry of a run call, which resumes the
\* instance, or one iteration of the loop, which may pause it): the
\* relative base changes only in an iteration that executes opcode 9.
C32_BaseStep ==
    vm'.relative_base /= vm.relative_base =>
        (Executed(9)' /\ hist'.last_forward = "Ok(true)" /\ hist'.fwd_pre = vm)

\* C32: a successful step changes only what its opcode names. Opcodes 1,
\* 2, 7 and 8 change one memory cell, the write target, and besides the
\* pointer nothing else; opcode 3 changes the write-target cell and moves
\* the input cursor by one; opcode 4 appends one value to the outputs;
\* opcodes 5 and 6 change the pointer only; opcode 9 changes the relative
\* base only, by the value of its parameter; opcode 99 changes no memory,
\* relative base, input cursor or output. No step of another opcode than
\* 9, failed or not, and no pause or resume, changes the relative base.
C32_StepFrame ==
    /\ [](\A op \in {1, 2, 7, 8} :
              Done(op) => (OneCell(op) /\ KeptBase /\ KeptCursor /\ KeptOutput))
    /\ [](Done(3) =>
              (/\ OneCell(3) /\ KeptBase /\ KeptOutput
               /\ vm.input_count = Pre.input_count + 1))
    /\ [](Done(4) =>
              (/\ KeptMemory /\ KeptBase /\ KeptCursor
               /\ Len(vm.output) = Len(Pre.output) + 1
               /\ IsPrefix(Pre.output, vm.output)))
    /\ [](\A op \in {5, 6} :
              Done(op) => vm = [Pre EXCEPT !.pointer = vm.pointer])
    /\ [](Done(9) =>
              (/\ vm = [Pre EXCEPT !.pointer = Pre.pointer + 2,
                                   !.relative_base = vm.relative_base]
               /\ Readable(Pre, 1) => Base(vm) = Base(Pre) + Value(Pre, 1)))
    /\ [](Done(99) =>
              (KeptMemory /\ KeptBase /\ KeptCursor /\ KeptOutput))
    /\ []((Stepped /\ ~Done(9)) => KeptBase)
    /\ [][C32_BaseStep]_vars

\* With a relative base that is not zero, an Input step has written
\* through a relative-mode target over a cell that held another value.
C32_Reached ==
    /\ Done(3)
    /\ ModeDigit(Word(Pre), 1) = 2
    /\ Pre.relative_base /= 0
    /\ ChangedCells = {Address(Pre, 1)}
    /\ vm.input_count = Pre.input_count + 1

----------------------------------------------------------------------------
(* Properties of the relative base as a signed number *)

RECURSIVE Sum(_)
Sum(s) == IF s = <<>> THEN 0 ELSE Head(s) + Sum(Tail(s))

\* The running sum of the adjustments opcode 9 had made when the last
\* forward() started, and the running sum now.
SumBefore ==
    IF Done(9) THEN Sum(SubSeq(hist.adjusted, 1, Len(hist.adjusted) - 1))
    ELSE Sum(hist.adjusted)
SumNow == Sum(hist.adjusted)

\* The running sum has been below zero.
PassedBelowZero ==
    \E k \in 1..Len(hist.adjusted) : Sum(SubSeq(hist.adjusted, 1, k)) < 0

\* A parameter of relative mode and data d.
RelativeTo(d) == [data |-> d, mode |-> "Relative"]

RelativeData == {-1, 0, 1, 4, 5, 13, 17, 2005}

\* C33: the relative base behaves as a signed number. After any sequence
\* of adjustments by opcode 9, of running sum s (which may be, or have
\* been, below zero), a relative-mode parameter of data d with s + d >= 0
\* names the address s + d: an operand reads that cell, an Output step
\* outputs it and a write changes that cell and no other.
C33_SignedBase ==
    /\ Base(vm) = SumNow
    /\ \A d \in RelativeData :
           SumNow + d >= 0 =>
               /\ get_address(vm, RelativeTo(d)) = SumNow + d
               /\ ReadRelative(vm, d) = Some(get(vm.memory, SumNow + d))
    /\ (Done(4) /\ ModeDigit(Word(Pre), 1) = 2 /\ SumBefore + Data(Pre, 1) >= 0) =>
           Last(vm.output) = get(Pre.memory, SumBefore + Data(Pre, 1))
    /\ \A op \in Writers :
           (/\ Done(op)
            /\ ModeDigit(Word(Pre), Target(op)) = 2
            /\ SumBefore + Data(Pre, Target(op)) >= 0
            /\ op /= 3 => (Readable(Pre, 1) /\ Readable(Pre, 2))) =>
               /\ ChangedCells \subseteq {SumBefore + Data(Pre, Target(op))}
               /\ get(vm.memory, SumBefore + Data(Pre, Target(op)))
                      = Written(op, Pre)
    /\ Ran(SignedBase) => vm.output = <<109, 7>>

\* After three adjustments, the first of which took the running sum below
\* zero, an Output step has read through a relative-mode operand the value
\* that a write through a relative-mode target left beyond the memory
\* while the sum was negative.
C33_Reached ==
    /\ Done(4)
    /\ ModeDigit(Word(Pre), 1) = 2
    /\ Len(hist.adjusted) = 3
    /\ PassedBelowZero
    /\ Pre.relative_base < IsizeMax
    /\ SumBefore + Data(Pre, 1) >= Len(hist.pre.memory)
    /\ Last(vm.output) = 7

----------------------------------------------------------------------------
(* Properties of the two ways of running to the end *)

\* What execute() left on the first instance.
Executed0 == hist.execute_vm

\* C34: when execute() on a fresh instance has reached Halt, a second
\* fresh instance with the same program and inputs, driven by
\* execute_until_next_output until is_running() is false, is left with the
\* same memory, relative base, input cursor and outputs.
C34_SameFinalState ==
    Pumped =>
        /\ hist.execute_ret.kind = "Ok"
        /\ ~Executed0.running
        /\ vm.memory = Executed0.memory
        /\ vm.relative_base = Executed0.relative_base
        /\ vm.input_count = Executed0.input_count
        /\ vm.output = Executed0.output

\* Both instances have read an input, written it to their memory and
\* output it; the second one was paused once on the way.
C34_Reached ==
    /\ Pumped
    /\ hist.calls = 2
    /\ vm.input_count = 1
    /\ get(vm.memory, 0) = 42
    /\ vm.output = <<42>>

----------------------------------------------------------------------------
(* Properties of a run call on an instance that is not running *)

\* A run call has started on an instance whose is_running() was false, and
\* has not made a forward() yet.
Restarted == call /= "none" /\ hist.call_steps = 0 /\ ~hist.pre.running

\* C35, one step: a step that starts a run call while is_running() is
\* false changes the pointer, to 0, and the running flag, and nothing else
\* of the instance.
C35_EntryStep ==
    (call = "none" /\ call' /= "none" /\ ~vm.running) =>
        vm' = [vm EXCEPT !.pointer = 0, !.running = TRUE]

\* C35: a run call made while is_running() is false resets the pointer to
\* 0 and nothing else: the memory (patches and earlier writes included),
\* the relative base, the input cursor and the outputs are those of before
\* the call, and the first instruction the call executes is the one at
\* address 0, on these values.
C35_ResetsPointerOnly ==
    /\ [](Restarted =>
              (/\ vm.pointer = 0
               /\ vm.memory = hist.pre.memory
               /\ vm.relative_base = hist.pre.relative_base
               /\ vm.input_count = hist.pre.input_count
               /\ vm.output = hist.pre.output))
    /\ []((hist.op \in RunCalls /\ hist.call_steps = 1 /\ ~hist.pre.running) =>
              Pre = [hist.pre EXCEPT !.pointer = 0, !.running = TRUE])
    /\ [][C35_EntryStep]_vars

\* A run call has started on an instance that had halted away from
\* address 0 after it had read an input, written it and output it.
C35_Reached ==
    /\ Restarted
    /\ hist.halted_before
    /\ hist.pre.pointer > 0
    /\ hist.pre.input_count = 1
    /\ hist.pre.output = <<42>>
    /\ get(vm.memory, 0) = 42

\* A run call has started on an instance that had halted with a relative
\* base other than zero.
C35_ReachedWithBase ==
    Restarted /\ hist.halted_before /\ hist.pre.relative_base /= 0

----------------------------------------------------------------------------
(* Properties of what the orchestrator forwards and reports *)

Front(s) == SubSeq(s, 1, Len(s) - 1)

\* What the orchestrator has received and will have forwarded when its
\* loop is back at recv().
DueForward ==
    IF ring.main.pc = "send" THEN Front(ring.main.received)
    ELSE ring.main.received

\* C36: in every interleaving the value the orchestrator returns is the
\* last entry of the Output Log of the last amplifier; the values it has
\* given to tx_input.send in its loop are the values rx_output.recv() gave
\* it, each once and in the same order; these are the first values the last
\* amplifier sent, in send order; and what the first amplifier has been
\* sent after its phase setting is the start signal 0 followed by forwarded
\* values, in that order.
C36_ForwardsWhatItReceives ==
    /\ ring.main.pc = "returned" =>
           /\ LogOf(NumAmplifiers) /= <<>>
           /\ ring.main.output = Last(LogOf(NumAmplifiers))
    /\ ring.main.forwarded = DueForward
    /\ IsPrefix(ring.main.received, SentByLast)
    /\ IsPrefix(Tail(Inbound(1).sent), <<0>> \o ring.main.forwarded)

\* The orchestrator has returned after it forwarded three values or more,
\* not all of them equal, to the first amplifier, the last of them in vain.
C36_Reached ==
    /\ ring.main.pc = "returned"
    /\ Len(ring.main.forwarded) >= 3
    /\ ring.main.forwarded[1] /= ring.main.forwarded[2]
    /\ Len(Inbound(1).sent) < 2 + Len(ring.main.forwarded)

----------------------------------------------------------------------------
(* Properties of the pipeline's outcome over all interleavings *)

\* The instance p run alone, forward() after forward(), for `fuel` steps at
\* most: what the forward() that did not return Ok(true) gave, on the
\* instance it left. An input request beyond the inputs of p fails.
RECURSIVE RunAlone(_, _)
RunAlone(p, fuel) ==
    LET fwd == CHOOSE f \in {forward(p)} : TRUE
    IN  IF fwd.result = "Ok(true)" /\ fuel > 0
        THEN RunAlone(fwd.vm, fuel - 1)
        ELSE fwd

\* What a worker whose VM has run like this has sent.
SendsOf(run) ==
    IF run.result = "Ok(false)" THEN ThenLastAgain(run.vm.output)
    ELSE run.vm.output

\* The amplifiers a, a + 1, ... run alone one after the other, each on its
\* phase setting followed by what its predecessor has sent (`inbound` for
\* amplifier a).
RECURSIVE RunInTurn(_, _, _, _)
RunInTurn(source, phases, a, inbound) ==
    IF a > NumAmplifiers THEN <<>>
    ELSE LET run == CHOOSE r \in
                        {RunAlone(from_str(source, <<phases[a]>> \o inbound),
                                  Len(source) + 1)} : TRUE
         IN  <<run>> \o RunInTurn(source, phases, a + 1, SendsOf(run))

\* The ring run in turns, n + 1 times over: the first amplifier is given
\* the start signal and then what the last one sent in the turn before.
RECURSIVE RunInTurns(_, _, _)
RunInTurns(source, phases, n) ==
    IF n = 0 THEN RunInTurn(source, phases, 1, <<0>>)
    ELSE LET before == CHOOSE r \in {RunInTurns(source, phases, n - 1)} : TRUE
         IN  RunInTurn(source, phases, 1,
                       <<0>> \o SendsOf(before[NumAmplifiers]))

\* The run in turns of the program and phase settings of the ring: the one
\* schedule in which no thread is ever ahead of another.
InTurns == RunInTurns(ring.source, ring.phase_setting_sequence, MaxRounds + 1)

\* In the run in turns every VM halts with an output: the orchestrator
\* returns.
Returns(runs) ==
    \A a \in Amplifiers : runs[a].result = "Ok(false)" /\ runs[a].vm.output /= <<>>

\* The pipeline is over: every worker has exited and the orchestrator has
\* returned or panicked.
PipelineOver ==
    /\ AllWorkersOver
    /\ ring.main.pc \in {"returned", "panicked"}

\* The outputs of every VM are those of the run in turns.
SameLogs(runs) == \A a \in Amplifiers : LogOf(a) = runs[a].vm.output

\* The orchestrator ends as in the run in turns: it returns the same value,
\* or it does not return either.
SameReport(runs) ==
    IF Returns(runs)
    THEN /\ ring.main.pc = "returned"
         /\ ring.main.output = Last(runs[NumAmplifiers].vm.output)
    ELSE ring.main.pc = "panicked"

\* C37: for a program and a phase sequence, the value the pipeline reports
\* and the final outputs of every VM are the same in every interleaving:
\* whenever the pipeline is over, they are those of the run in turns.
C37_SameOutcome ==
    PipelineOver => \A runs \in {InTurns} : SameLogs(runs) /\ SameReport(runs)

\* What holds in every interleaving: the final outputs of every VM are
\* those of the run in turns, and so is what the orchestrator reports
\* unless its start signal was refused.
C37_SameOutcomeOnceStarted ==
    PipelineOver =>
        \A runs \in {InTurns} :
            /\ SameLogs(runs)
            /\ ~StartRefused => SameReport(runs)

----------------------------------------------------------------------------
(* Properties of the amplifiers in series *)

\* The number of the amplifier whose VM exists, from 1.
Serving == ring.folded + 1

\* The first output of the amplifier before it, 0 for the first one.
SignalFor(k) == IF k = 1 THEN 0 ELSE ring.outputs[k - 1][1]

\* What the chain gives amplifier k at input ordinal n.
ChainInput(k, n) ==
    IF n = 0 THEN ring.phase_setting_sequence[k] ELSE SignalFor(k)

\* C38: in the serial chain the VM of the k-th amplifier is given its
\* phase setting at input ordinal 0 and the first output of amplifier
\* k - 1 (0 for the first amplifier) at ordinal 1, and an Input step
\* stores these values; a third input request fails with an error that
\* ends the run of that VM (and the chain with it); the result of the
\* chain is the first output of the last amplifier.
C38_SerialChain ==
    /\ ring.pc = "run" =>
           /\ Serving <= NumAmplifiers
           /\ vm.input_source = <<ChainInput(Serving, 0), ChainInput(Serving, 1)>>
    /\ (ring.pc = "run" /\ Done(3) /\ Writable(Pre, 1)) =>
           /\ Pre.input_count < 2
           /\ get(vm.memory, Address(Pre, 1)) = ChainInput(Serving, Pre.input_count)
    /\ (ring.pc \in {"run", "panicked"} /\ Executed(3) /\ Pre.input_count >= 2) =>
           /\ hist.last_forward = "Err"
           /\ call = "none"
           /\ ret.kind = "Err"
           /\ ret.message = InputUnavailable
           /\ vm.output = Pre.output
           /\ ring.pc = "panicked" => ring.message = InputUnavailable
    /\ ring.pc = "returned" =>
           /\ Len(ring.outputs) = NumAmplifiers
           /\ ring.output_signal = ring.outputs[NumAmplifiers][1]

\* The chain has returned the first output of the last amplifier, which is
\* not its last output, after every amplifier but the first was given a
\* signal other than 0.
C38_Reached ==
    /\ ring.pc = "returned"
    /\ \A k \in 2..NumAmplifiers : SignalFor(k) /= 0
    /\ Last(ring.outputs[NumAmplifiers]) /= ring.output_signal

\* A third input request has failed and the chain has panicked.
C38_ReachedThird ==
    /\ ring.pc = "panicked"
    /\ Executed(3)
    /\ Pre.input_count = 2

====
